---- MODULE Spec2Model ----
(***************************************************************************)
(* Lifecycle of one AIHedgeFundAgent (src/src/agent/AIHedgeFundAgent.ts):  *)
(* start(), stop(), the one-shot timers armed by scheduleNextCycle() and   *)
(* the activations of the async method runCycle(), each suspended at the   *)
(* await of one of its seven sub-steps.  JavaScript runs every handler to  *)
(* its next await without interruption, and runs the continuation of       *)
(* "await this.runCycle()" in start() as a microtask, before any timer or  *)
(* collaborator callback: one action is one such run.                      *)
(*                                                                         *)
(* The data the cycle works on (currentAllocation, adaptiveRunInterval,    *)
(* riskProfile, decisionLog) is followed by further specifications, each   *)
(* over the fields its operations read and write: CycleSpec, NormSpec,     *)
(* SchedSpec and RiskSpec.  Numbers that are fractions in the program are  *)
(* exact rationals [n, d] here; IEEE rounding is left out.                 *)
(***************************************************************************)
EXTENDS Integers, Naturals, FiniteSets, Sequences, Bags, TLC

\* ---------------------------------------------------------------- bounds
\* start() is called only while at most MaxActive - 2 timers and activations
\* are left over from earlier starts (one start adds up to two of them)
MaxActive == 3
\* start() is called only while consecutiveFailures is below MaxFailures
MaxFailures == 6

\* ------------------------------------------------------ program constants
\* private maxConsecutiveFailures: number = 5
maxConsecutiveFailures == 5

\* ----------------------------------------------------------------- state
VARIABLES
  isRunning,            \* this.isRunning
  consecutiveFailures,  \* this.consecutiveFailures
  timers,               \* bag of armed setTimeout callbacks;
                        \* stale: stop() ran after the timer was armed
  cycles,               \* bag of runCycle() activations, each suspended in a sub-step
                        \* (origin "start": start() awaits it);
                        \* stopped: stop() ran while the activation was in flight
  lifecycle,            \* history: why isRunning has its value
  failedSinceSuccess,   \* history: cycles that ended in the catch block since the last success
  everFailed,           \* history: some cycle ended in the catch block
  rejections,           \* history: start() promises rejected + unhandled rejections
  swallowed,            \* history: a start() resolved although its initial cycle threw
  ranOn,                \* history: an activation began a further sub-step after
                        \* stop() ran while it was in flight
  advisory,             \* <<a>>: GeminiService.optimizeAllocation() has parsed the
                        \* object a from the advisory response and is about to
                        \* normalize it; <<>>: no call is in progress
  currentAllocation,    \* this.currentAllocation
  marketData,           \* this.marketData: <<>> for null, or <<v>> with v its
                        \* globalMetrics.volatilityIndex
  adaptiveRunInterval,  \* this.adaptiveRunInterval
  riskProfile,          \* this.riskProfile
  pendingRecs,          \* adaptRiskSettings(): the riskRecommendations its loop has
                        \* still to visit
  decisionLog,          \* this.decisionLog, the type of each entry
  allocationBefore,     \* history: currentAllocation when the cycle in flight began
  tradesInCycle,        \* history: trades executed by the cycle in flight
  intervalFresh,        \* history: adaptRunInterval() has computed adaptiveRunInterval
                        \* from the present marketData and currentAllocation
  adaptations,          \* history: recommendations adaptRiskSettings() has visited
  adaptCall,            \* adaptRiskSettings(): <<>>, or <<r>> while a call is in
                        \* progress, with r.given the number of recommendations
                        \* it was given and r.riskRecommendations those it kept
  recorded,             \* history: calls of recordDecision() that LogSpec has followed
  status,               \* an AgentStatus returned by getStatus() and held by its
                        \* caller: <<>> before the call, or <<s>>
  statusThen,           \* history: <<p>> with p the content of this.riskProfile
                        \* when status was returned
  scoreInput,           \* evaluateStrategies(): <<>>, or <<i>> with i the market
                        \* data and the advisory answer the strategies are
                        \* evaluated on
  strategyScores,       \* for each strategy <<>>, or <<r>> with r the StrategyScore
                        \* its evaluate() resolved to
  oracle,               \* the responses of the advisory model to the cycle that
                        \* began last: <<>>, or <<r>>
  executed,             \* executeAllocatedStrategies(): the strategies executed by
                        \* the cycle that began last, each with what the DEX did
  activations,          \* history: for each activation of runCycle(), in the order
                        \* they began, the sub-step it is in and the sub-steps it
                        \* has finished
  performanceMetrics,   \* this.performanceMetrics, by its dailyReturns: the
                        \* return of each calendar day that has one
  today,                \* the calendar day new Date() gives, counted from the
                        \* day the agent was constructed
  updating,             \* the activations of updatePerformanceMetrics(): the
                        \* await each is suspended at, the metrics it awaits and
                        \* the continuations queued ahead of its own
  sockets,              \* the WebSocket objects createConnection() has made, in
                        \* the order they were made, each by its readyState
  connections,          \* this.connections.get(connectionId): <<>>, or <<s>>
                        \* for the socket s
  heartbeatIntervals,   \* this.heartbeatIntervals.get(connectionId): <<>>, or
                        \* <<"interval">> for the interval of setupHeartbeat()
  reconnectAttempts,    \* this.reconnectAttempts.get(connectionId): <<>>, or <<n>>
  reconnectTimers,      \* bag of the setTimeout callbacks armed by
                        \* attemptReconnect(), each by its delay
  connectionFailed,     \* history: connection_failed events emitted
  attemptsSinceOpen,    \* history: reconnect timers armed since a socket last
                        \* opened
  closedAll,            \* history: closeAll() has been called
  toRecord,             \* executeAllocatedStrategies(): the results its recording
                        \* loop has still to visit
  recordTradeCalls,     \* history: the trades passed to metricsService.recordTrade()
  scheduled             \* history: computed is the value the last successful cycle
                        \* left in adaptiveRunInterval, delay is <<>> or <<d>> with
                        \* d the delay of the latest setTimeout() of
                        \* scheduleNextCycle(), afterFailure tells that a cycle
                        \* that ended in the catch block armed it

vars == <<isRunning, consecutiveFailures, timers, cycles, lifecycle,
          failedSinceSuccess, everFailed, rejections, swallowed, ranOn>>

\* the fields of the agent that the lifecycle does not read
dataVars == <<advisory, currentAllocation, marketData, adaptiveRunInterval, riskProfile,
              pendingRecs, decisionLog, allocationBefore, tradesInCycle, intervalFresh,
              adaptations, adaptCall, recorded, status, statusThen, scoreInput,
              strategyScores, oracle, executed, activations, performanceMetrics, today,
              updating, sockets, connections, heartbeatIntervals, reconnectAttempts,
              reconnectTimers, connectionFailed, attemptsSinceOpen, closedAll, toRecord,
              recordTradeCalls, scheduled>>

allVars == <<vars, dataVars>>

\* the sub-steps with the adaptation of the risk profile before the execution
\* of the strategies
SubSteps_adaptBeforeExecute ==
  <<"fetchMarketData", "analyzeMarket", "evaluateStrategies", "optimizeAllocation",
    "analyzePerformanceAndAdapt", "executeAllocatedStrategies",
    "updatePerformanceMetrics">>

\* the awaited sub-steps of runCycle(), in program order
SubSteps == <<"fetchMarketData", "analyzeMarket", "evaluateStrategies",
              "optimizeAllocation", "executeAllocatedStrategies",
              "updatePerformanceMetrics", "analyzePerformanceAndAdapt">>

StepNames == {SubSteps[i] : i \in 1..Len(SubSteps)}

IndexOf(s) == CHOOSE i \in 1..Len(SubSteps) : SubSteps[i] = s

\* the statement that follows sub-step s in the try block
NextStep(s) == IF IndexOf(s) < Len(SubSteps) THEN SubSteps[IndexOf(s) + 1] ELSE "success"

\* an activation is in flight while it is suspended in a sub-step
InFlight(c) == c.pc \in StepNames

RECURSIVE SumCopies(_, _)
SumCopies(S, B) ==
  IF S = {} THEN 0
  ELSE LET x == CHOOSE y \in S : TRUE
       IN CopiesIn(x, B) + SumCopies(S \ {x}, B)

\* number of runCycle() activations begun and not yet finished
InFlightCount == SumCopies({c \in BagToSet(cycles) : InFlight(c)}, cycles)

Add(B, x) == B (+) SetToBag({x})
Remove(B, x) == B (-) SetToBag({x})

\* history marks made by a stop() call: every armed timer was armed before it,
\* every activation in flight was in flight during it
MarkStale(T) == BagOfAll(LAMBDA t : [t EXCEPT !.stale = TRUE], T)
MarkStopped(C) ==
  BagOfAll(LAMBDA c : IF InFlight(c) THEN [c EXCEPT !.stopped = TRUE] ELSE c, C)

\* ------------------------------------------------------------- the code
\* start(): if (this.isRunning) { ...already running...; return; }
alreadyRunning == isRunning

\* stop() leaving the flag as it is
stop_keepsFlag == isRunning

\* stop(): this.isRunning = false
stop == FALSE

\* getStatus(): the lifecycle field of the AgentStatus it returns
getStatus == [isRunning |-> isRunning]

\* the callback of setTimeout: if (this.isRunning) { this.runCycle()... }
timerRuns == isRunning

\* scheduleNextCycle(): setTimeout(callback, this.adaptiveRunInterval) arms one
\* more one-shot timer; nothing is cancelled or replaced
scheduleNextCycle(T, t) == Add(T, t)

\* the first sub-step awaited before the try block is entered
caught_afterFetch(s) == s \in StepNames \ {"fetchMarketData"}

\* runCycle(): every sub-step is awaited inside the try block
caught(s) == s \in StepNames

\* the callback of setTimeout: this.runCycle().catch(...)
handledByTimer == TRUE

\* a success that leaves the counter alone
resetFailures_missing == consecutiveFailures

\* runCycle(), try block: this.consecutiveFailures = 0
resetFailures == 0

\* a catch block that does not count
countFailure_missing == consecutiveFailures

\* runCycle(), catch block: this.consecutiveFailures++
countFailure == consecutiveFailures + 1

\* runCycle(), catch block: if (this.consecutiveFailures >= this.maxConsecutiveFailures)
breakerTrips(n) == n >= maxConsecutiveFailures

\* a cycle that ends without arming a timer
rescheduleAfterCycle_never == FALSE

\* rescheduling without reading the flag
rescheduleAfterCycle_always == TRUE

\* runCycle(), after try/catch: if (this.isRunning) { this.scheduleNextCycle(); }
rescheduleAfterCycle == isRunning

\* runCycle() up to its first await (in fetchMarketData)
BeginCycle(origin) == [pc |-> SubSteps[1], origin |-> origin, stopped |-> FALSE]

\* a timer just armed
NewTimer == [stale |-> FALSE]

\* start(), after "await this.runCycle()": this.scheduleNextCycle(), whatever
\* the flag is; an activation begun by a timer has nothing awaiting it
startResumes(T, c) ==
  IF c.origin = "start" THEN scheduleNextCycle(T, NewTimer) ELSE T

\* runCycle(), the statements after try/catch
endOfCycle(T) ==
  IF rescheduleAfterCycle THEN scheduleNextCycle(T, NewTimer) ELSE T

\* ------------------------------------------------------------ the numbers
\* a JavaScript number that is a fraction: n / d in lowest terms, d > 0
RECURSIVE GCD(_, _)
GCD(a, b) == IF b = 0 THEN a ELSE GCD(b, a % b)

Abs(x) == IF x < 0 THEN -x ELSE x

Q(n, d) ==
  LET s == IF d < 0 THEN -1 ELSE 1
      g == GCD(Abs(n), Abs(d))
  IN [n |-> (s * n) \div g, d |-> (s * d) \div g]

Zero == Q(0, 1)
One == Q(1, 1)

QAdd(a, b) == Q(a.n * b.d + b.n * a.d, a.d * b.d)
QMul(a, b) == Q(a.n * b.n, a.d * b.d)
\* a / b for b # 0
QDiv(a, b) == Q(a.n * b.d, a.d * b.n)
QLess(a, b) == a.n * b.d < b.n * a.d
\* Math.max(a, b), Math.min(a, b)
QMax(a, b) == IF QLess(a, b) THEN b ELSE a
QMin(a, b) == IF QLess(b, a) THEN b ELSE a

\* Object.values(m).reduce((a, b) => a + b, 0)
RECURSIVE SumOver(_, _)
SumOver(m, keys) ==
  IF keys = {} THEN Zero
  ELSE LET k == CHOOSE x \in keys : TRUE
       IN QAdd(m[k], SumOver(m, keys \ {k}))

SumValues(m) == SumOver(m, DOMAIN m)

\* ------------------------------------------------------------ allocation
\* evaluateStrategies(): the strategies the agent scores and can execute
Strategies == {"momentum", "arbitrage", "copy-trading"}

\* private currentAllocation: PortfolioAllocation = {}
EmptyAllocation == [key \in {} |-> Zero]

\* normalizeAllocation(), sum === 0: 1 / count for each key of the argument
equalAllocation(allocation) ==
  LET count == Cardinality(DOMAIN allocation)
  IN [key \in DOMAIN allocation |-> QDiv(One, Q(count, 1))]

\* GeminiService.normalizeAllocation() (OpenAIService.normalizeAllocation() is
\* the same text)
normalizeAllocation(allocation) ==
  LET sum == SumValues(allocation)
  IN IF sum = Zero
     THEN equalAllocation(allocation)
     ELSE [key \in DOMAIN allocation |-> QDiv(allocation[key], sum)]

\* constructor: dailyReturns: {}
NoReturns == [day \in {} |-> 0]

\* activations of updatePerformanceMetrics() in flight at a time
MaxUpdates == 2

\* an activation of runCycle() that is not in updatePerformanceMetrics()
NotUpdating == [pc |-> "idle", updatedMetrics |-> <<>>, ahead |-> 0]

\* api.ts, POST /agent: the risk profile of a request that gives none
defaultRiskProfile ==
  [type                 |-> "balanced",
   maxDrawdown          |-> Q(15, 100),
   leverage             |-> Q(1, 1),
   positionSizeFactor   |-> Q(2, 10),
   maxExposurePerAsset  |-> Q(3, 10),
   stopLossPercentage   |-> Q(5, 1),
   takeProfitPercentage |-> Q(15, 1)]

\* private adaptiveRunInterval: number = 60000
initialRunInterval == 60000

\* scheduleNextCycle() has not been called
NothingScheduled ==
  [computed |-> initialRunInterval, delay |-> <<>>, afterFailure |-> FALSE]

\* the data fields after new AIHedgeFundAgent(id, profile, ...)
ConstructedWith(profile) ==
  /\ advisory = <<>>
  /\ currentAllocation = EmptyAllocation
  /\ marketData = <<>>
  /\ adaptiveRunInterval = initialRunInterval
  /\ riskProfile = profile
  /\ pendingRecs = <<>>
  /\ decisionLog = <<>>
  /\ allocationBefore = EmptyAllocation
  /\ tradesInCycle = 0
  /\ intervalFresh = FALSE
  /\ adaptations = 0
  /\ adaptCall = <<>>
  /\ recorded = 0
  /\ status = <<>>
  /\ statusThen = <<>>
  /\ scoreInput = <<>>
  /\ strategyScores = [s \in Strategies |-> <<>>]
  /\ oracle = <<>>
  /\ executed = <<>>
  /\ activations = <<>>
  /\ performanceMetrics = [dailyReturns |-> NoReturns]
  /\ today = 1
  /\ updating = [i \in 1..MaxUpdates |-> NotUpdating]
  /\ sockets = <<>>
  /\ connections = <<>>
  /\ heartbeatIntervals = <<>>
  /\ reconnectAttempts = <<>>
  /\ reconnectTimers = EmptyBag
  /\ connectionFailed = 0
  /\ attemptsSinceOpen = 0
  /\ closedAll = FALSE
  /\ toRecord = <<>>
  /\ recordTradeCalls = <<>>
  /\ scheduled = NothingScheduled

\* the data fields of the agent that POST /agent makes for a request without
\* a risk profile
Constructed == ConstructedWith(defaultRiskProfile)

Init ==
  /\ isRunning = FALSE
  /\ consecutiveFailures = 0
  /\ timers = EmptyBag
  /\ cycles = EmptyBag
  /\ lifecycle = "Idle"
  /\ failedSinceSuccess = 0
  /\ everFailed = FALSE
  /\ rejections = 0
  /\ swallowed = FALSE
  /\ ranOn = FALSE

\* the agent that POST /agent has constructed and not yet started
Created == Init /\ Constructed

\* start() finds the agent not running: sets the flag and runs the initial cycle
\* up to its first await
Start ==
  /\ BagCardinality(timers) + BagCardinality(cycles) + 2 <= MaxActive
  /\ consecutiveFailures < MaxFailures
  /\ ~alreadyRunning
  /\ isRunning' = TRUE
  /\ cycles' = Add(cycles, BeginCycle("start"))
  /\ lifecycle' = "Running"
  /\ UNCHANGED <<consecutiveFailures, timers, failedSinceSuccess, everFailed,
                 rejections, swallowed, ranOn>>

\* start() finds the agent running: logs and returns
StartIgnored ==
  /\ alreadyRunning
  /\ UNCHANGED vars

\* stop() called by the owner of the agent
Stop ==
  /\ isRunning' = stop
  /\ timers' = MarkStale(timers)
  /\ cycles' = MarkStopped(cycles)
  /\ lifecycle' = IF lifecycle = "Running" THEN "Stopped" ELSE lifecycle
  /\ UNCHANGED <<consecutiveFailures, failedSinceSuccess, everFailed, rejections,
                 swallowed, ranOn>>

\* the awaited sub-step of c returns and runCycle() goes on to the next one
StepReturns(c) ==
  /\ InFlight(c)
  /\ NextStep(c.pc) # "success"
  /\ cycles' = Add(Remove(cycles, c), [c EXCEPT !.pc = NextStep(c.pc)])
  /\ ranOn' = (ranOn \/ c.stopped)
  /\ UNCHANGED <<isRunning, consecutiveFailures, timers, lifecycle,
                 failedSinceSuccess, everFailed, rejections, swallowed>>

\* the last sub-step of c returns: the rest of the try block, the statements
\* after try/catch and, for the initial cycle, the rest of start()
CycleSucceeds(c) ==
  /\ InFlight(c)
  /\ NextStep(c.pc) = "success"
  /\ consecutiveFailures' = resetFailures
  /\ timers' = startResumes(endOfCycle(timers), c)
  /\ cycles' = Remove(cycles, c)
  /\ failedSinceSuccess' = 0
  /\ UNCHANGED <<isRunning, lifecycle, everFailed, rejections, swallowed, ranOn>>

\* the awaited sub-step of c throws (or its promise rejects): the catch block,
\* the statements after try/catch and, for the initial cycle, the rest of start()
StepThrows(c) ==
  /\ InFlight(c)
  /\ IF caught(c.pc)
     THEN LET n == countFailure
          IN /\ consecutiveFailures' = n
             /\ failedSinceSuccess' = failedSinceSuccess + 1
             /\ everFailed' = TRUE
             /\ swallowed' = (swallowed \/ c.origin = "start")
             /\ IF breakerTrips(n)
                THEN \* this.stop(); return;
                     /\ isRunning' = stop
                     /\ timers' = startResumes(MarkStale(timers), c)
                     /\ cycles' = MarkStopped(Remove(cycles, c))
                     /\ lifecycle' = "HaltedOnFailure"
                ELSE /\ timers' = startResumes(endOfCycle(timers), c)
                     /\ cycles' = Remove(cycles, c)
                     /\ UNCHANGED <<isRunning, lifecycle>>
             /\ UNCHANGED rejections
     ELSE \* the exception leaves runCycle(): its promise rejects; the await in
          \* start() rethrows, the timer callback has a rejection handler
          /\ cycles' = Remove(cycles, c)
          /\ rejections' = IF c.origin = "start" \/ ~handledByTimer
                           THEN rejections + 1 ELSE rejections
          /\ UNCHANGED <<isRunning, consecutiveFailures, timers, lifecycle,
                         failedSinceSuccess, everFailed, swallowed>>
  /\ UNCHANGED ranOn

\* an armed timer fires while the agent is running: a new activation of runCycle()
TimerRunsCycle(t) ==
  /\ timerRuns
  /\ timers' = Remove(timers, t)
  /\ cycles' = Add(cycles, BeginCycle("timer"))
  /\ UNCHANGED <<isRunning, consecutiveFailures, lifecycle, failedSinceSuccess,
                 everFailed, rejections, swallowed, ranOn>>

\* an armed timer fires while the agent is not running: the callback does nothing
TimerFiresIdle(t) ==
  /\ ~timerRuns
  /\ timers' = Remove(timers, t)
  /\ UNCHANGED <<isRunning, consecutiveFailures, cycles, lifecycle,
                 failedSinceSuccess, everFailed, rejections, swallowed, ranOn>>

\* the lifecycle alone: what the cycles do to the data is left out
Next ==
  \/ Start /\ UNCHANGED dataVars
  \/ StartIgnored /\ UNCHANGED dataVars
  \/ Stop /\ UNCHANGED dataVars
  \/ \E c \in BagToSet(cycles) : StepReturns(c) /\ UNCHANGED dataVars
  \/ \E c \in BagToSet(cycles) : CycleSucceeds(c) /\ UNCHANGED dataVars
  \/ \E c \in BagToSet(cycles) : StepThrows(c) /\ UNCHANGED dataVars
  \/ \E t \in BagToSet(timers) : TimerRunsCycle(t) /\ UNCHANGED dataVars
  \/ \E t \in BagToSet(timers) : TimerFiresIdle(t) /\ UNCHANGED dataVars

Spec == Created /\ [][Next]_allVars

\* an armed timer fires: the callback of setTimeout() runs after its delay
TimerFires ==
  \E t \in BagToSet(timers) :
    (TimerRunsCycle(t) \/ TimerFiresIdle(t)) /\ UNCHANGED dataVars

\* FairSpec: the lifecycle with the event loop running every callback whose
\* timer has expired
FairSpec == Spec /\ WF_allVars(TimerFires)

\* ------------------------------------------------- the cycle and its data
\* CycleSpec: the cycles of an agent whose owner calls start() and never
\* stop(), in the runs in which every cycle has ended before the next timer
\* callback runs (collaborators that answer without waiting for I/O), with
\* what each sub-step does to currentAllocation and decisionLog.  What the
\* cycle does to marketData, adaptiveRunInterval and riskProfile is followed
\* in SchedSpec and RiskSpec.

\* a cycle begins only while the decision log has at most MaxLogAtBegin entries
MaxLogAtBegin == 4

\* recordDecision(): if (this.decisionLog.length > 100) slice(-100)
decisionLogLimit == 100

EntryTypes == {"market_analysis", "portfolio_allocation", "trade_execution",
               "performance_analysis", "risk_adaptation"}

\* -------------------------------------------------------- the decision log
\* LogSpec: recordDecision() called MaxRecords times on the log of a new
\* agent.  Each entry is written as the ordinal of the call that pushed it,
\* which stands for its timestamp and details.

\* recordDecision() is followed through MaxRecords calls
MaxRecords == 150

\* recordDecision() without the trimming of the log
recordDecision_noTrim(log, decisionType) == Append(log, decisionType)

\* recordDecision() keeping the oldest entries: slice(0, 100)
recordDecision_keepsOldest(log, decisionType) ==
  LET pushed == Append(log, decisionType)
  IN IF Len(pushed) > decisionLogLimit
     THEN SubSeq(pushed, 1, decisionLogLimit)
     ELSE pushed

\* recordDecision(decisionType, details)
recordDecision(log, decisionType) ==
  LET pushed == Append(log, decisionType)
  IN IF Len(pushed) > decisionLogLimit
     THEN SubSeq(pushed, Len(pushed) - decisionLogLimit + 1, Len(pushed))
     ELSE pushed

RECURSIVE recordDecisions(_, _, _)
recordDecisions(log, decisionType, k) ==
  IF k = 0 THEN log
  ELSE recordDecisions(recordDecision(log, decisionType), decisionType, k - 1)

\* getStatus(): recentDecisions: this.decisionLog.slice(-5)
recentDecisions(log) ==
  SubSeq(log, IF Len(log) > 5 THEN Len(log) - 4 ELSE 1, Len(log))

\* one call of recordDecision()
DecisionRecorded ==
  /\ recorded < MaxRecords
  /\ recorded' = recorded + 1
  /\ decisionLog' = recordDecision(decisionLog, recorded + 1)
  /\ UNCHANGED <<advisory, currentAllocation, marketData, adaptiveRunInterval,
                 riskProfile, pendingRecs, allocationBefore, tradesInCycle,
                 intervalFresh, adaptations, adaptCall, status, statusThen, scoreInput,
                 strategyScores, oracle, executed, activations, performanceMetrics,
                 today, updating, sockets, connections, heartbeatIntervals,
                 reconnectAttempts, reconnectTimers, connectionFailed,
                 attemptsSinceOpen, closedAll, toRecord, recordTradeCalls, scheduled>>

LogNext == DecisionRecorded /\ UNCHANGED vars

LogSpec == Created /\ [][LogNext]_allVars

\* the objects the advisory answers with in CycleSpec: {}, all of the capital
\* to momentum, the same raw weight for each strategy
CycleAdvisories ==
  {EmptyAllocation,
   [key \in {"momentum"} |-> One],
   [key \in Strategies |-> One]}

\* executeAllocatedStrategies() with >= 0 in its if statements
Allocated_orZero(allocation) ==
  {s \in Strategies \cap DOMAIN allocation : ~QLess(allocation[s], Zero)}

\* executeAllocatedStrategies(): if (this.currentAllocation[s] > 0) execute s
Allocated(allocation) ==
  {s \in Strategies \cap DOMAIN allocation : QLess(Zero, allocation[s])}

\* no activation of runCycle() is in flight
Sequential == cycles = EmptyBag

\* runCycle() begins: nothing is written but lastRunTimestamp
CycleBeginsOnData ==
  /\ Len(decisionLog) <= MaxLogAtBegin
  /\ allocationBefore' = currentAllocation
  /\ tradesInCycle' = 0
  /\ UNCHANGED <<advisory, currentAllocation, marketData, adaptiveRunInterval,
                 riskProfile, pendingRecs, decisionLog, intervalFresh, adaptations,
                 adaptCall, recorded, status, statusThen, scoreInput, strategyScores,
                 oracle, executed, activations, performanceMetrics, today, updating,
                 sockets, connections, heartbeatIntervals, reconnectAttempts,
                 reconnectTimers, connectionFailed, attemptsSinceOpen, closedAll,
                 toRecord, recordTradeCalls, scheduled>>

\* the rest of the sub-step c is suspended in, after its await returns
SubStepOnData(c) ==
  /\ CASE c.pc = "analyzeMarket" ->
            /\ decisionLog' = recordDecision(decisionLog, "market_analysis")
            /\ UNCHANGED <<currentAllocation, tradesInCycle>>
       [] c.pc = "optimizeAllocation" ->
            \E raw \in CycleAdvisories :
              /\ currentAllocation' = normalizeAllocation(raw)
              /\ decisionLog' = recordDecision(decisionLog, "portfolio_allocation")
              /\ UNCHANGED tradesInCycle
       [] c.pc = "executeAllocatedStrategies" ->
            \* every allocated strategy has executed; succeeded of them report
            \* success and are recorded
            \E succeeded \in 0..Cardinality(Allocated(currentAllocation)) :
              /\ tradesInCycle' = succeeded
              /\ decisionLog' = recordDecisions(decisionLog, "trade_execution", succeeded)
              /\ UNCHANGED currentAllocation
       [] OTHER ->
            UNCHANGED <<currentAllocation, decisionLog, tradesInCycle>>
  /\ UNCHANGED <<advisory, marketData, adaptiveRunInterval, riskProfile, pendingRecs,
                 allocationBefore, intervalFresh, adaptations, adaptCall, recorded,
                 status, statusThen, scoreInput, strategyScores, oracle, executed,
                 activations, performanceMetrics, today, updating, sockets, connections,
                 heartbeatIntervals, reconnectAttempts, reconnectTimers,
                 connectionFailed, attemptsSinceOpen, closedAll, toRecord,
                 recordTradeCalls, scheduled>>

\* analyzePerformanceAndAdapt() after its await returns: the analysis is
\* recorded, and adaptRiskSettings() records an adaptation if it made one
LastSubStepOnData ==
  /\ \E adapted \in BOOLEAN :
       decisionLog' =
         LET analysed == recordDecision(decisionLog, "performance_analysis")
         IN IF adapted THEN recordDecision(analysed, "risk_adaptation") ELSE analysed
  /\ UNCHANGED <<advisory, currentAllocation, marketData, adaptiveRunInterval,
                 riskProfile, pendingRecs, allocationBefore, tradesInCycle,
                 intervalFresh, adaptations, adaptCall, recorded, status, statusThen,
                 scoreInput, strategyScores, oracle, executed, activations,
                 performanceMetrics, today, updating, sockets, connections,
                 heartbeatIntervals, reconnectAttempts, reconnectTimers,
                 connectionFailed, attemptsSinceOpen, closedAll, toRecord,
                 recordTradeCalls, scheduled>>

\* the catch block writes to the console and to consecutiveFailures only; a
\* throw out of executeAllocatedStrategies() comes from the loop that records
\* the trades, at a trade that succeeded, after every allocated strategy has
\* executed: the execute() of a strategy catches what its collaborators throw
CatchOnData(c) ==
  /\ IF c.pc = "executeAllocatedStrategies" /\ Allocated(currentAllocation) # {}
     THEN \E succeeded \in 1..Cardinality(Allocated(currentAllocation)) :
            tradesInCycle' = succeeded
     ELSE UNCHANGED tradesInCycle
  /\ UNCHANGED <<advisory, currentAllocation, marketData, adaptiveRunInterval,
                 riskProfile, pendingRecs, decisionLog, allocationBefore, intervalFresh,
                 adaptations, adaptCall, recorded, status, statusThen, scoreInput,
                 strategyScores, oracle, executed, activations, performanceMetrics,
                 today, updating, sockets, connections, heartbeatIntervals,
                 reconnectAttempts, reconnectTimers, connectionFailed,
                 attemptsSinceOpen, closedAll, toRecord, recordTradeCalls, scheduled>>

CycleNext ==
  \/ Start /\ Sequential /\ CycleBeginsOnData
  \/ \E c \in BagToSet(cycles) : StepReturns(c) /\ SubStepOnData(c)
  \/ \E c \in BagToSet(cycles) : CycleSucceeds(c) /\ LastSubStepOnData
  \/ \E c \in BagToSet(cycles) : StepThrows(c) /\ CatchOnData(c)
  \/ \E t \in BagToSet(timers) : TimerRunsCycle(t) /\ Sequential /\ CycleBeginsOnData
  \/ \E t \in BagToSet(timers) : TimerFiresIdle(t) /\ UNCHANGED dataVars

CycleSpec == Created /\ [][CycleNext]_allVars

\* ------------------------------------------------- the advisory allocation
\* NormSpec: GeminiService.optimizeAllocation() on the path on which the
\* advisory response parses to an object, and the assignment of its result to
\* currentAllocation in AIHedgeFundAgent.optimizeAllocation().

\* the raw weights of an advisory response are the integers -MaxRawWeight..MaxRawWeight
MaxRawWeight == 2

RawWeights == {Q(w, 1) : w \in -MaxRawWeight..MaxRawWeight}

\* the objects an advisory response can parse to: a weight for some of the strategies
RawAllocations == UNION {[keys -> RawWeights] : keys \in SUBSET Strategies}

\* extractJsonFromText(text) returns the object raw, which is truthy ({} as well)
AdvisoryAnswers(raw) ==
  /\ advisory = <<>>
  /\ advisory' = <<raw>>
  /\ UNCHANGED <<currentAllocation, marketData, adaptiveRunInterval, riskProfile,
                 pendingRecs, decisionLog, allocationBefore, tradesInCycle,
                 intervalFresh, adaptations, adaptCall, recorded, status, statusThen,
                 scoreInput, strategyScores, oracle, executed, activations,
                 performanceMetrics, today, updating, sockets, connections,
                 heartbeatIntervals, reconnectAttempts, reconnectTimers,
                 connectionFailed, attemptsSinceOpen, closedAll, toRecord,
                 recordTradeCalls, scheduled>>

\* return this.normalizeAllocation(allocation); this.currentAllocation = await ...
AllocationNormalized ==
  /\ advisory # <<>>
  /\ currentAllocation' = normalizeAllocation(advisory[1])
  /\ advisory' = <<>>
  /\ UNCHANGED <<marketData, adaptiveRunInterval, riskProfile, pendingRecs, decisionLog,
                 allocationBefore, tradesInCycle, intervalFresh, adaptations, adaptCall,
                 recorded, status, statusThen, scoreInput, strategyScores, oracle,
                 executed, activations, performanceMetrics, today, updating, sockets,
                 connections, heartbeatIntervals, reconnectAttempts, reconnectTimers,
                 connectionFailed, attemptsSinceOpen, closedAll, toRecord,
                 recordTradeCalls, scheduled>>

NormNext ==
  \/ \E raw \in RawAllocations : AdvisoryAnswers(raw) /\ UNCHANGED vars
  \/ AllocationNormalized /\ UNCHANGED vars

NormSpec == Created /\ [][NormNext]_allVars

\* ------------------------------------------------------ the run interval
\* SchedSpec: the three writes of a cycle that the next delay depends on:
\* fetchMarketData() assigns marketData, optimizeAllocation() assigns
\* currentAllocation, and adaptRunInterval() at the end of a successful cycle
\* assigns adaptiveRunInterval.  A cycle can fail between them, so the model
\* lets each happen whenever; the services are taken for what their types say
\* (any volatilityIndex >= 0, any map of weights).

\* globalMetrics.volatilityIndex is k / VolUnit for k in 0..MaxVol
MaxVol == 12
VolUnit == 20

VolatilityIndexes == {Q(k, VolUnit) : k \in 0..MaxVol}

\* the weights of an allocation a service resolves to
AllocationWeights == {Zero, Q(1, 4), Q(1, 2)}

AllocationsResolved == UNION {[keys -> AllocationWeights] : keys \in SUBSET Strategies}

\* const baseInterval = 60000
baseInterval == 60000

\* x || 1: x unless it is falsy
orOne(x) == IF x = Zero THEN One ELSE x

\* the volatility factor without its upper limit
volatilityFactor_noCeiling(volatilityIndex) ==
  QMax(Q(1, 2), QDiv(One, orOne(QMul(volatilityIndex, Q(4, 1)))))

\* Math.max(0.5, Math.min(2, 1 / (volatilityIndex * 4 || 1)))
volatilityFactor(volatilityIndex) ==
  QMax(Q(1, 2), QMin(Q(2, 1), QDiv(One, orOne(QMul(volatilityIndex, Q(4, 1))))))

\* Object.keys(a).length > 0 ? (sum of the values > 0.5 ? 0.8 : 1.2) : 1
tradingFactor(allocation) ==
  IF Cardinality(DOMAIN allocation) > 0
  THEN IF QLess(Q(1, 2), SumValues(allocation)) THEN Q(8, 10) ELSE Q(12, 10)
  ELSE One

\* Math.floor(x)
round_floor(x) == x.n \div x.d

\* Math.round(x): the integer nearest to x, the larger one of two
round(x) == (2 * x.n + x.d) \div (2 * x.d)

\* adaptRunInterval(): the value adaptiveRunInterval has when it returns
adaptRunInterval ==
  IF marketData = <<>>
  THEN adaptiveRunInterval
  ELSE round(QMul(QMul(Q(baseInterval, 1), volatilityFactor(marketData[1])),
                  tradingFactor(currentAllocation)))

\* fetchMarketData(): this.marketData = await this.marketDataService.getMarketData()
MarketDataFetched(volatilityIndex) ==
  /\ marketData' = <<volatilityIndex>>
  /\ intervalFresh' = FALSE
  /\ UNCHANGED <<advisory, currentAllocation, adaptiveRunInterval, riskProfile,
                 pendingRecs, decisionLog, allocationBefore, tradesInCycle, adaptations,
                 adaptCall, recorded, status, statusThen, scoreInput, strategyScores,
                 oracle, executed, activations, performanceMetrics, today, updating,
                 sockets, connections, heartbeatIntervals, reconnectAttempts,
                 reconnectTimers, connectionFailed, attemptsSinceOpen, closedAll,
                 toRecord, recordTradeCalls, scheduled>>

\* optimizeAllocation(): this.currentAllocation = await this.geminiService.optimizeAllocation(...)
AllocationAssigned(allocation) ==
  /\ currentAllocation' = allocation
  /\ intervalFresh' = FALSE
  /\ UNCHANGED <<advisory, marketData, adaptiveRunInterval, riskProfile, pendingRecs,
                 decisionLog, allocationBefore, tradesInCycle, adaptations, adaptCall,
                 recorded, status, statusThen, scoreInput, strategyScores, oracle,
                 executed, activations, performanceMetrics, today, updating, sockets,
                 connections, heartbeatIntervals, reconnectAttempts, reconnectTimers,
                 connectionFailed, attemptsSinceOpen, closedAll, toRecord,
                 recordTradeCalls, scheduled>>

\* runCycle(), end of the try block: this.adaptRunInterval()
IntervalAdapted ==
  /\ adaptiveRunInterval' = adaptRunInterval
  /\ intervalFresh' = (marketData # <<>>)
  /\ UNCHANGED <<advisory, currentAllocation, marketData, riskProfile, pendingRecs,
                 decisionLog, allocationBefore, tradesInCycle, adaptations, adaptCall,
                 recorded, status, statusThen, scoreInput, strategyScores, oracle,
                 executed, activations, performanceMetrics, today, updating, sockets,
                 connections, heartbeatIntervals, reconnectAttempts, reconnectTimers,
                 connectionFailed, attemptsSinceOpen, closedAll, toRecord,
                 recordTradeCalls, scheduled>>

SchedNext ==
  \/ \E v \in VolatilityIndexes : MarketDataFetched(v) /\ UNCHANGED vars
  \/ \E a \in AllocationsResolved : AllocationAssigned(a) /\ UNCHANGED vars
  \/ IntervalAdapted /\ UNCHANGED vars

SchedSpec == Created /\ [][SchedNext]_allVars

\* ------------------------------------------------------ the risk settings
\* RiskSpec: adaptRiskSettings(), called by analyzePerformanceAndAdapt() with
\* the analysis the service resolves to.  Its loop over riskRecommendations is
\* followed one recommendation at a time.

\* an analysis carries at most MaxRecs recommendations
MaxRecs == 2
\* adaptRiskSettings() is followed through MaxAdaptations recommendations
MaxAdaptations == 3

\* the risk profiles an agent is constructed with: the default of POST /agent
\* and profiles with the two adapted fields inside and on the limits
RiskProfiles ==
  {[defaultRiskProfile EXCEPT !.positionSizeFactor = p, !.maxExposurePerAsset = m] :
     p \in {defaultRiskProfile.positionSizeFactor, Q(1, 2), Q(1, 1), Q(3, 2)},
     m \in {defaultRiskProfile.maxExposurePerAsset, Q(5, 100), Q(1, 10), Q(25, 100)}}

\* the substrings adaptRiskSettings() looks for in rec.action
Phrases == {"risk", "exposure", "reduce risk", "lower exposure", "increase risk",
            "higher exposure"}

\* rec.action, as the set of those substrings it contains: "reduce risk",
\* "lower exposure ...", "increase risk", "higher exposure", "monitor risk",
\* "rebalance", "reduce risk, later increase risk"
RecActions ==
  {{"reduce risk", "risk"},
   {"lower exposure", "exposure"},
   {"increase risk", "risk"},
   {"higher exposure", "exposure"},
   {"risk"},
   {},
   {"reduce risk", "increase risk", "risk"}}

Recommendations == [priority : {"high", "medium"}, action : RecActions]

RecommendationLists == UNION {[1..n -> Recommendations] : n \in 0..MaxRecs}

\* rec.action.includes(phrase)
includes(action, phrase) == phrase \in action

\* the filter of adaptRiskSettings() with the test of rec.priority left out
riskRecommendations_anyPriority(recommendations) ==
  SelectSeq(recommendations,
            LAMBDA rec : includes(rec.action, "risk") \/ includes(rec.action, "exposure"))

\* recommendations.filter(rec => rec.priority === "high" &&
\*   (rec.action.includes("risk") || rec.action.includes("exposure")))
riskRecommendations(recommendations) ==
  SelectSeq(recommendations,
            LAMBDA rec : /\ rec.priority = "high"
                         /\ includes(rec.action, "risk") \/ includes(rec.action, "exposure"))

\* the body of the loop with the lower limit of maxExposurePerAsset left out
applyRecommendation_noFloor(profile, rec) ==
  IF includes(rec.action, "reduce risk") \/ includes(rec.action, "lower exposure")
  THEN [profile EXCEPT
          !.positionSizeFactor = QMax(Q(5, 10), QMul(@, Q(9, 10))),
          !.maxExposurePerAsset = QMul(@, Q(9, 10))]
  ELSE IF includes(rec.action, "increase risk") \/ includes(rec.action, "higher exposure")
  THEN [profile EXCEPT
          !.positionSizeFactor = QMin(Q(15, 10), QMul(@, Q(11, 10))),
          !.maxExposurePerAsset = QMin(Q(25, 100), QMul(@, Q(11, 10)))]
  ELSE profile

\* adaptRiskSettings(), the body of the loop over riskRecommendations
applyRecommendation(profile, rec) ==
  IF includes(rec.action, "reduce risk") \/ includes(rec.action, "lower exposure")
  THEN [profile EXCEPT
          !.positionSizeFactor = QMax(Q(5, 10), QMul(@, Q(9, 10))),
          !.maxExposurePerAsset = QMax(Q(5, 100), QMul(@, Q(9, 10)))]
  ELSE IF includes(rec.action, "increase risk") \/ includes(rec.action, "higher exposure")
  THEN [profile EXCEPT
          !.positionSizeFactor = QMin(Q(15, 10), QMul(@, Q(11, 10))),
          !.maxExposurePerAsset = QMin(Q(25, 100), QMul(@, Q(11, 10)))]
  ELSE profile

\* adaptRiskSettings(performanceAnalysis) up to its loop: returns at once if
\* there are no recommendations or none passes the filter
AnalysisReturned(recommendations) ==
  /\ adaptCall = <<>>
  /\ pendingRecs = <<>>
  /\ adaptations + Len(recommendations) <= MaxAdaptations
  /\ adaptCall' = <<[given |-> Len(recommendations),
                      riskRecommendations |-> riskRecommendations(recommendations)]>>
  /\ pendingRecs' = riskRecommendations(recommendations)
  /\ UNCHANGED <<advisory, currentAllocation, marketData, adaptiveRunInterval,
                 riskProfile, decisionLog, allocationBefore, tradesInCycle,
                 intervalFresh, adaptations, recorded, status, statusThen, scoreInput,
                 strategyScores, oracle, executed, activations, performanceMetrics,
                 today, updating, sockets, connections, heartbeatIntervals,
                 reconnectAttempts, reconnectTimers, connectionFailed,
                 attemptsSinceOpen, closedAll, toRecord, recordTradeCalls, scheduled>>

\* one turn of the loop
RecommendationVisited ==
  /\ pendingRecs # <<>>
  /\ riskProfile' = applyRecommendation(riskProfile, Head(pendingRecs))
  /\ pendingRecs' = Tail(pendingRecs)
  /\ adaptations' = adaptations + 1
  /\ UNCHANGED <<advisory, currentAllocation, marketData, adaptiveRunInterval,
                 decisionLog, allocationBefore, tradesInCycle, intervalFresh, adaptCall,
                 recorded, status, statusThen, scoreInput, strategyScores, oracle,
                 executed, activations, performanceMetrics, today, updating, sockets,
                 connections, heartbeatIntervals, reconnectAttempts, reconnectTimers,
                 connectionFailed, attemptsSinceOpen, closedAll, toRecord,
                 recordTradeCalls, scheduled>>

\* adaptRiskSettings() returns: one of the two early returns, or the end of the
\* loop, where the adaptation is recorded whether or not a turn changed the
\* profile
AdaptationReturns ==
  /\ adaptCall # <<>>
  /\ pendingRecs = <<>>
  /\ decisionLog' = IF adaptCall[1].riskRecommendations = <<>>
                    THEN decisionLog
                    ELSE recordDecision(decisionLog, "risk_adaptation")
  /\ adaptCall' = <<>>
  /\ UNCHANGED <<advisory, currentAllocation, marketData, adaptiveRunInterval,
                 riskProfile, pendingRecs, allocationBefore, tradesInCycle,
                 intervalFresh, adaptations, recorded, status, statusThen, scoreInput,
                 strategyScores, oracle, executed, activations, performanceMetrics,
                 today, updating, sockets, connections, heartbeatIntervals,
                 reconnectAttempts, reconnectTimers, connectionFailed,
                 attemptsSinceOpen, closedAll, toRecord, recordTradeCalls, scheduled>>

RiskInit == Init /\ \E profile \in RiskProfiles : ConstructedWith(profile)

RiskNext ==
  \/ \E recs \in RecommendationLists : AnalysisReturned(recs) /\ UNCHANGED vars
  \/ RecommendationVisited /\ UNCHANGED vars
  \/ AdaptationReturns /\ UNCHANGED vars

RiskSpec == RiskInit /\ [][RiskNext]_allVars

\* ------------------------------------------------------- the status query
\* StatusSpec: getStatus() called once while adaptRiskSettings() goes on
\* adapting the risk profile, as in RiskSpec.  A field of the AgentStatus that
\* holds an object is written as the name of the object it refers to.

\* getStatus(): riskProfile: this.riskProfile, the object itself and no copy
\* of it
AgentStatus == [riskProfile |-> "this.riskProfile"]

\* the content of the object a field of an AgentStatus refers to:
\* this.riskProfile is assigned once, by the constructor, and written in
\* place by adaptRiskSettings()
Content(object) == CASE object = "this.riskProfile" -> riskProfile

\* getStatus() returns; adaptRiskSettings() awaits nothing, so no status is
\* built while a call of it is in progress
StatusReturned ==
  /\ status = <<>>
  /\ adaptCall = <<>>
  /\ status' = <<AgentStatus>>
  /\ statusThen' = <<riskProfile>>
  /\ UNCHANGED <<advisory, currentAllocation, marketData, adaptiveRunInterval,
                 riskProfile, pendingRecs, decisionLog, allocationBefore, tradesInCycle,
                 intervalFresh, adaptations, adaptCall, recorded, scoreInput,
                 strategyScores, oracle, executed, activations, performanceMetrics,
                 today, updating, sockets, connections, heartbeatIntervals,
                 reconnectAttempts, reconnectTimers, connectionFailed,
                 attemptsSinceOpen, closedAll, toRecord, recordTradeCalls, scheduled>>

StatusNext ==
  \/ \E recs \in RecommendationLists : AnalysisReturned(recs) /\ UNCHANGED vars
  \/ RecommendationVisited /\ UNCHANGED vars
  \/ AdaptationReturns /\ UNCHANGED vars
  \/ StatusReturned /\ UNCHANGED vars

StatusSpec == Created /\ [][StatusNext]_allVars

\* -------------------------------------------------- the strategy scores
\* ScoreSpec: the evaluate() of the three strategies, as evaluateStrategies()
\* calls them on this.marketData.

\* the advisory analysis names at most MaxOpportunities opportunities for
\* copy trading
MaxOpportunities == 8

\* the market data the strategies read: globalMetrics.volatilityIndex and
\* .trendStrength, the number of assets with priceChange24h > 5 and the
\* number of opportunities findArbitrageOpportunities() returns
Snapshots ==
  [volatilityIndex : {Q(1, 10), Q(1, 2), Q(9, 10)},
   trendStrength : {Q(-1, 1), Zero, One},
   momentumAssets : {0, 2, 30},
   arbitrageOpportunities : {0, 1, 7}]

\* what the try block of CopyTradingStrategy.evaluate() meets: it throws
\* (analyzeMarket() rejects, or analysis.opportunities is no array), the
\* analysis has no opportunities, or it has n opportunities whose strategy is
\* "copy-trading"
AnalysisAnswers ==
  {[kind |-> "rejects", copyTrading |-> 0], [kind |-> "none", copyTrading |-> 0]}
    \cup {[kind |-> "analysis", copyTrading |-> n] : n \in 0..MaxOpportunities}

\* Math.max(0, Math.min(100, score))
clamp(score) == QMax(Zero, QMin(Q(100, 1), score))

\* MomentumStrategy.calculateMomentumScore()
calculateMomentumScore(md) ==
  LET trend == QAdd(Q(50, 1), QMul(md.trendStrength, Q(20, 1)))
      vol == IF QLess(md.volatilityIndex, Q(3, 10)) THEN QAdd(trend, Q(10, 1))
             ELSE IF QLess(Q(7, 10), md.volatilityIndex) THEN QAdd(trend, Q(-15, 1))
             ELSE trend
  IN clamp(QAdd(vol, Q(md.momentumAssets * 2, 1)))

\* MomentumStrategy.evaluate()
evaluateMomentum(md) ==
  LET score == calculateMomentumScore(md)
  IN [score |-> score, confidence |-> QDiv(score, Q(100, 1))]

\* ArbitrageStrategy.evaluate()
evaluateArbitrage(md) ==
  LET n == md.arbitrageOpportunities
      score == IF n > 0
               THEN QAdd(Q(50, 1), QMin(Q(50, 1), Q(n * 10, 1)))
               ELSE Q(25, 1)
  IN [score |-> score, confidence |-> QDiv(score, Q(100, 1))]

\* CopyTradingStrategy.evaluate(): the score is clamped, the confidence is
\* computed from the score before it is clamped
evaluateCopyTrading(md, answer) ==
  IF answer.kind = "rejects"
  THEN [score |-> Q(30, 1), confidence |-> Q(3, 10)]
  ELSE LET base == IF QLess(md.volatilityIndex, Q(3, 10)) THEN Q(60, 1) ELSE Q(50, 1)
           score == IF answer.kind = "analysis"
                    THEN QAdd(base, Q(answer.copyTrading * 7, 1))
                    ELSE base
       IN [score |-> clamp(score), confidence |-> QDiv(score, Q(100, 1))]

\* strategy.evaluate(this.marketData)
evaluate(strategy, input) ==
  CASE strategy = "momentum" -> evaluateMomentum(input.marketData)
    [] strategy = "arbitrage" -> evaluateArbitrage(input.marketData)
    [] strategy = "copy-trading" -> evaluateCopyTrading(input.marketData, input.answer)

\* evaluateStrategies() is entered with the market data of the cycle
EvaluationBegins(md, answer) ==
  /\ scoreInput = <<>>
  /\ scoreInput' = <<[marketData |-> md, answer |-> answer]>>
  /\ UNCHANGED <<advisory, currentAllocation, marketData, adaptiveRunInterval,
                 riskProfile, pendingRecs, decisionLog, allocationBefore, tradesInCycle,
                 intervalFresh, adaptations, adaptCall, recorded, status, statusThen,
                 strategyScores, oracle, executed, activations, performanceMetrics,
                 today, updating, sockets, connections, heartbeatIntervals,
                 reconnectAttempts, reconnectTimers, connectionFailed,
                 attemptsSinceOpen, closedAll, toRecord, recordTradeCalls, scheduled>>

\* one evaluate() resolves
StrategyEvaluated(strategy) ==
  /\ scoreInput # <<>>
  /\ strategyScores[strategy] = <<>>
  /\ strategyScores' =
       [strategyScores EXCEPT ![strategy] = <<evaluate(strategy, scoreInput[1])>>]
  /\ UNCHANGED <<advisory, currentAllocation, marketData, adaptiveRunInterval,
                 riskProfile, pendingRecs, decisionLog, allocationBefore, tradesInCycle,
                 intervalFresh, adaptations, adaptCall, recorded, status, statusThen,
                 scoreInput, oracle, executed, activations, performanceMetrics, today,
                 updating, sockets, connections, heartbeatIntervals, reconnectAttempts,
                 reconnectTimers, connectionFailed, attemptsSinceOpen, closedAll,
                 toRecord, recordTradeCalls, scheduled>>

ScoreNext ==
  \/ \E md \in Snapshots, answer \in AnalysisAnswers :
       EvaluationBegins(md, answer) /\ UNCHANGED vars
  \/ \E strategy \in Strategies : StrategyEvaluated(strategy) /\ UNCHANGED vars

ScoreSpec == Created /\ [][ScoreNext]_allVars

\* --------------------------------------- the answers of the collaborators
\* AnswerSpec: the cycles of CycleSpec, one after another, with what the
\* advisory model answers to the analysis and the allocation prompt of each
\* cycle and what the DEX does for each strategy executed.  Whether a sub-step
\* throws is computed from these answers; the market data, wallet and metrics
\* services answer, and the decision log is not followed.

\* the market data of these cycles, by the fields that are read
CycleMarket ==
  [volatilityIndex |-> Q(1, 2), trendStrength |-> Zero, momentumAssets |-> 0,
   arbitrageOpportunities |-> 1, assetVolatility |-> <<Q(2, 10), Q(35, 100)>>]

\* the objects an analysis text can parse to, by the fields the cycle reads: a
\* complete analysis, {}, and an analysis with a risk that has no severity
ParsedAnalyses ==
  {[volatility_assessment |-> "low", risks |-> <<[severity |-> <<"medium">>]>>],
   [volatility_assessment |-> "undefined", risks |-> <<>>],
   [volatility_assessment |-> "high", risks |-> <<[severity |-> <<>>]>>]}

\* the objects an allocation text can parse to: {}, a zero for each strategy,
\* all of the capital to momentum, the same weight for each strategy, a zero
\* for arbitrage and the same weight for the other two
ParsedAllocations ==
  CycleAdvisories
    \cup {[key \in Strategies |-> Zero],
          [key \in Strategies |-> IF key = "arbitrage" THEN Zero ELSE One]}

\* what this.gemini.generateContent(prompt) does: it rejects, or resolves to
\* a text, written as <<>> if no JSON can be parsed from it and as <<o>> if it
\* parses to the object o
Responses(objects) ==
  {[kind |-> "rejects", json |-> <<>>], [kind |-> "text", json |-> <<>>]}
    \cup {[kind |-> "text", json |-> <<o>>] : o \in objects}

\* extractJsonFromText(text): null, written <<>>, or the object
extractJsonFromText(response) == response.json

\* GeminiService.generateMockMarketAnalysis(): a risk for each asset whose
\* volatility is above 0.25, at most three (priceChange24h is left out)
generateMockMarketAnalysis(md) ==
  LET v == md.volatilityIndex
      risky == SelectSeq(md.assetVolatility, LAMBDA a : QLess(Q(1, 4), a))
      top == SubSeq(risky, 1, IF Len(risky) > 3 THEN 3 ELSE Len(risky))
  IN [volatility_assessment |->
        IF QLess(Q(1, 4), v) THEN "high"
        ELSE IF QLess(Q(3, 20), v) THEN "moderate" ELSE "low",
      risks |-> [i \in 1..Len(top) |->
                   [severity |-> <<IF QLess(Q(3, 10), top[i]) THEN "high" ELSE "medium">>]]]

\* GeminiService.analyzeMarket() without its fallbacks: what was parsed is
\* returned, null included
analyzeMarket_noFallback(response, md) == extractJsonFromText(response)

\* GeminiService.analyzeMarket(): <<a>> for the analysis a it resolves to
analyzeMarket(response, md) ==
  IF response.kind = "rejects" \/ extractJsonFromText(response) = <<>>
  THEN <<generateMockMarketAnalysis(md)>>
  ELSE extractJsonFromText(response)

\* AIHedgeFundAgent.analyzeMarket() throws a TypeError: this.marketAnalysis is
\* null, or risk.severity.toUpperCase() of a risk without severity
analyzeMarketThrows(analysis) ==
  \/ analysis = <<>>
  \/ \E i \in DOMAIN analysis[1].risks : analysis[1].risks[i].severity = <<>>

\* evaluateStrategies(): the score of each strategy
evaluateStrategies(md) ==
  [s \in Strategies |->
     evaluate(s, [marketData |-> md,
                  answer |-> [kind |-> "none", copyTrading |-> 0]]).score]

\* GeminiService.generateEqualAllocation()
generateEqualAllocation(scores) ==
  [s \in DOMAIN scores |-> QDiv(One, Q(Cardinality(DOMAIN scores), 1))]

\* GeminiService.generateSmartAllocation() for a profile of type "balanced",
\* the type of every profile here (the Math.pow() of the other types is left
\* out)
generateSmartAllocation(scores, profile, analysis) ==
  LET totalScore == SumValues(scores)
      highVolatility == analysis.volatility_assessment = "high"
                          /\ profile.type # "aggressive"
      share(s) ==
        LET proportional == QDiv(scores[s], totalScore)
        IN IF highVolatility /\ s = "momentum" THEN QMul(proportional, Q(8, 10))
           ELSE IF highVolatility /\ s = "copy-trading" THEN QMul(proportional, Q(12, 10))
           ELSE proportional
  IN IF totalScore = Zero
     THEN generateEqualAllocation(scores)
     ELSE normalizeAllocation([s \in DOMAIN scores |-> share(s)])

\* GeminiService.optimizeAllocation()
optimizeAllocation(response, scores, profile, analysis) ==
  IF response.kind = "rejects" \/ extractJsonFromText(response) = <<>>
  THEN generateSmartAllocation(scores, profile, analysis)
  ELSE normalizeAllocation(extractJsonFromText(response)[1])

\* what dexService.executeTrade() and the search for an opportunity before it
\* do in the execute() of a strategy: a trade, no opportunity, a rejection
DexAnswers == {"trade", "none", "rejects"}

\* execute() of a strategy: the TradeResult it resolves to; a rejection of
\* executeTrade() is caught and becomes a result with success: false
execute(dex) == [success |-> dex = "trade"]

\* executeAllocatedStrategies(): the order of its three if statements
ExecutionOrder == <<"momentum", "arbitrage", "copy-trading">>

\* the allocated strategies that have not yet executed, in that order
ToExecute ==
  SelectSeq(ExecutionOrder,
            LAMBDA s : /\ s \in Allocated(currentAllocation)
                       /\ \A i \in DOMAIN executed : executed[i].strategy # s)

\* the sub-step throws, given the responses of the advisory
subStepThrows(step, responses) ==
  /\ step = "analyzeMarket"
  /\ analyzeMarketThrows(analyzeMarket(responses.analysis, CycleMarket))

\* runCycle() begins: the responses the advisory will give in this cycle
CycleBeginsOnAnswers ==
  /\ \E a \in Responses(ParsedAnalyses), b \in Responses(ParsedAllocations) :
       oracle' = <<[analysis |-> a, allocation |-> b]>>
  /\ executed' = <<>>
  /\ UNCHANGED <<advisory, currentAllocation, marketData, adaptiveRunInterval,
                 riskProfile, pendingRecs, decisionLog, allocationBefore, tradesInCycle,
                 intervalFresh, adaptations, adaptCall, recorded, status, statusThen,
                 scoreInput, strategyScores, activations, performanceMetrics, today,
                 updating, sockets, connections, heartbeatIntervals, reconnectAttempts,
                 reconnectTimers, connectionFailed, attemptsSinceOpen, closedAll,
                 toRecord, recordTradeCalls, scheduled>>

\* the sub-step of c returns
SubStepOnAnswers(c) ==
  /\ ~subStepThrows(c.pc, oracle[1])
  /\ c.pc = "executeAllocatedStrategies" => ToExecute = <<>>
  /\ currentAllocation' =
       IF c.pc = "optimizeAllocation"
       THEN optimizeAllocation(oracle[1].allocation, evaluateStrategies(CycleMarket),
                               riskProfile,
                               analyzeMarket(oracle[1].analysis, CycleMarket)[1])
       ELSE currentAllocation
  /\ UNCHANGED <<advisory, marketData, adaptiveRunInterval, riskProfile, pendingRecs,
                 decisionLog, allocationBefore, tradesInCycle, intervalFresh,
                 adaptations, adaptCall, recorded, status, statusThen, scoreInput,
                 strategyScores, oracle, executed, activations, performanceMetrics,
                 today, updating, sockets, connections, heartbeatIntervals,
                 reconnectAttempts, reconnectTimers, connectionFailed,
                 attemptsSinceOpen, closedAll, toRecord, recordTradeCalls, scheduled>>

\* executeAllocatedStrategies(): the execute() of the next allocated strategy,
\* called with its weight (const allocation = this.currentAllocation[s]),
\* resolves
StrategyExecutes(c, dex) ==
  /\ InFlight(c)
  /\ c.pc = "executeAllocatedStrategies"
  /\ ToExecute # <<>>
  /\ executed' = Append(executed, [strategy |-> Head(ToExecute),
                                   allocation |-> currentAllocation[Head(ToExecute)],
                                   dex |-> dex, result |-> execute(dex)])
  /\ UNCHANGED <<advisory, currentAllocation, marketData, adaptiveRunInterval,
                 riskProfile, pendingRecs, decisionLog, allocationBefore, tradesInCycle,
                 intervalFresh, adaptations, adaptCall, recorded, status, statusThen,
                 scoreInput, strategyScores, oracle, activations, performanceMetrics,
                 today, updating, sockets, connections, heartbeatIntervals,
                 reconnectAttempts, reconnectTimers, connectionFailed,
                 attemptsSinceOpen, closedAll, toRecord, recordTradeCalls, scheduled>>

\* the sub-step of c throws
ThrowOnAnswers(c) ==
  /\ subStepThrows(c.pc, oracle[1])
  /\ UNCHANGED dataVars

AnswerNext ==
  \/ Start /\ Sequential /\ CycleBeginsOnAnswers
  \/ \E c \in BagToSet(cycles) : StepReturns(c) /\ SubStepOnAnswers(c)
  \/ \E c \in BagToSet(cycles), dex \in DexAnswers :
       StrategyExecutes(c, dex) /\ UNCHANGED vars
  \/ \E c \in BagToSet(cycles) : CycleSucceeds(c) /\ UNCHANGED dataVars
  \/ \E c \in BagToSet(cycles) : StepThrows(c) /\ ThrowOnAnswers(c)
  \/ \E t \in BagToSet(timers) : TimerRunsCycle(t) /\ Sequential /\ CycleBeginsOnAnswers
  \/ \E t \in BagToSet(timers) : TimerFiresIdle(t) /\ UNCHANGED dataVars

AnswerSpec == Created /\ [][AnswerNext]_allVars

\* ------------------------------------------------- cycles that overlap
\* OverlapSpec: the cycles of an agent whose owner calls start() and never
\* stop(), in whatever order the event loop runs the timer callbacks and the
\* continuations of the sub-steps.  The activations of runCycle() are numbered
\* in the order they begin; each entry of decisionLog is written with its
\* type and the number of the activation that recorded it.

\* runCycle() is followed through MaxCycles activations
MaxCycles == 3
\* executeAllocatedStrategies() records at most MaxTrades trades
MaxTrades == 1

\* the activations that are in sub-step s
ActivationsIn(s) == {i \in DOMAIN activations : activations[i].pc = s}

\* activation i leaves its sub-step for the position next
Moved(i, next) ==
  [activations EXCEPT ![i] =
     [pc |-> next,
      finished |-> IF next = "failed" THEN @.finished ELSE Append(@.finished, @.pc)]]

\* the recommendation of a performance analysis that makes adaptRiskSettings()
\* reduce the risk
ReduceRisk == [priority |-> "high", action |-> {"reduce risk", "risk"}]

\* runCycle() begins
CycleBeginsNumbered ==
  /\ Len(activations) < MaxCycles
  /\ activations' = Append(activations, [pc |-> SubSteps[1], finished |-> <<>>])
  /\ UNCHANGED <<advisory, currentAllocation, marketData, adaptiveRunInterval,
                 riskProfile, pendingRecs, decisionLog, allocationBefore, tradesInCycle,
                 intervalFresh, adaptations, adaptCall, recorded, status, statusThen,
                 scoreInput, strategyScores, oracle, executed, performanceMetrics,
                 today, updating, sockets, connections, heartbeatIntervals,
                 reconnectAttempts, reconnectTimers, connectionFailed,
                 attemptsSinceOpen, closedAll, toRecord, recordTradeCalls, scheduled>>

\* what sub-step s of activation i writes when it returns
SubStepWrites(s, i) ==
  CASE s = "analyzeMarket" ->
         /\ decisionLog' = recordDecision(decisionLog,
                             [type |-> "market_analysis", cycle |-> i])
         /\ UNCHANGED riskProfile
    [] s = "optimizeAllocation" ->
         /\ decisionLog' = recordDecision(decisionLog,
                             [type |-> "portfolio_allocation", cycle |-> i])
         /\ UNCHANGED riskProfile
    [] s = "executeAllocatedStrategies" ->
         /\ \E succeeded \in 0..MaxTrades :
              decisionLog' = recordDecisions(decisionLog,
                               [type |-> "trade_execution", cycle |-> i], succeeded)
         /\ UNCHANGED riskProfile
    [] s = "analyzePerformanceAndAdapt" ->
         \* the analysis is recorded; adaptRiskSettings() adapts the profile
         \* and records it, or returns
         \E adapted \in BOOLEAN :
           LET analysed == recordDecision(decisionLog,
                             [type |-> "performance_analysis", cycle |-> i])
           IN IF adapted
              THEN /\ riskProfile' = applyRecommendation(riskProfile, ReduceRisk)
                   /\ decisionLog' = recordDecision(analysed,
                                       [type |-> "risk_adaptation", cycle |-> i])
              ELSE /\ UNCHANGED riskProfile
                   /\ decisionLog' = analysed
    [] OTHER -> UNCHANGED <<decisionLog, riskProfile>>

\* the sub-step of c returns, for one of the activations that are in it
SubStepNumbered(c) ==
  /\ \E i \in ActivationsIn(c.pc) :
       /\ activations' = Moved(i, NextStep(c.pc))
       /\ SubStepWrites(c.pc, i)
  /\ UNCHANGED <<advisory, currentAllocation, marketData, adaptiveRunInterval,
                 pendingRecs, allocationBefore, tradesInCycle, intervalFresh,
                 adaptations, adaptCall, recorded, status, statusThen, scoreInput,
                 strategyScores, oracle, executed, performanceMetrics, today, updating,
                 sockets, connections, heartbeatIntervals, reconnectAttempts,
                 reconnectTimers, connectionFailed, attemptsSinceOpen, closedAll,
                 toRecord, recordTradeCalls, scheduled>>

\* the sub-step of c throws
CatchNumbered(c) ==
  /\ \E i \in ActivationsIn(c.pc) : activations' = Moved(i, "failed")
  /\ UNCHANGED <<advisory, currentAllocation, marketData, adaptiveRunInterval,
                 riskProfile, pendingRecs, decisionLog, allocationBefore, tradesInCycle,
                 intervalFresh, adaptations, adaptCall, recorded, status, statusThen,
                 scoreInput, strategyScores, oracle, executed, performanceMetrics,
                 today, updating, sockets, connections, heartbeatIntervals,
                 reconnectAttempts, reconnectTimers, connectionFailed,
                 attemptsSinceOpen, closedAll, toRecord, recordTradeCalls, scheduled>>

OverlapNext ==
  \/ Start /\ CycleBeginsNumbered
  \/ \E c \in BagToSet(cycles) : StepReturns(c) /\ SubStepNumbered(c)
  \/ \E c \in BagToSet(cycles) : CycleSucceeds(c) /\ SubStepNumbered(c)
  \/ \E c \in BagToSet(cycles) : StepThrows(c) /\ CatchNumbered(c)
  \/ \E t \in BagToSet(timers) : TimerRunsCycle(t) /\ CycleBeginsNumbered

OverlapSpec == Created /\ [][OverlapNext]_allVars

\* ------------------------------------------------- the performance metrics
\* MetricsSpec: the activations of updatePerformanceMetrics() of the cycles
\* in flight (start() leaves two timers armed, so two cycles run at a time),
\* in whatever order the event loop resumes them, while the calendar day
\* advances.  Of the metrics the dailyReturns are followed.

\* the calendar days that pass
MaxDays == 2

\* const dailyReturn = Math.random() * 0.02 - 0.01: a loss and a gain
Returns == {-1, 1}

\* GeminiService.calculatePerformanceMetrics(): { ...currentMetrics,
\* dailyReturns: { ...currentMetrics.dailyReturns, [today]: dailyReturn } }
calculatePerformanceMetrics(currentMetrics, day, dailyReturn) ==
  [currentMetrics EXCEPT
     !.dailyReturns = [d \in DOMAIN @ \cup {day} |->
                         IF d = day THEN dailyReturn ELSE @[d]]]

\* updatePerformanceMetrics() is called and waits for getWalletInfo()
UpdateBegins(i) ==
  /\ updating[i] = NotUpdating
  /\ updating' = [updating EXCEPT ![i].pc = "getWalletInfo"]
  /\ UNCHANGED <<performanceMetrics, today>>

\* the activations whose continuation after calculatePerformanceMetrics() is
\* queued
Queued == {j \in 1..MaxUpdates : updating[j].pc = "calculatePerformanceMetrics"}

\* getWalletInfo() resolves: without wallet info the method returns; with it,
\* calculatePerformanceMetrics() is called on this.performanceMetrics as it
\* is now, and the continuation of the method is queued behind those of the
\* activations that called it before
WalletInfoReturned(i, walletInfo, dailyReturn) ==
  /\ updating[i].pc = "getWalletInfo"
  /\ updating' =
       [updating EXCEPT ![i] =
          IF walletInfo
          THEN [pc |-> "calculatePerformanceMetrics",
                updatedMetrics |->
                  <<calculatePerformanceMetrics(performanceMetrics, today, dailyReturn)>>,
                ahead |-> Cardinality(Queued)]
          ELSE NotUpdating]
  /\ UNCHANGED <<performanceMetrics, today>>

\* this.performanceMetrics = (the metrics awaited), in the continuation at
\* the head of the queue
MetricsAssigned(i) ==
  /\ i \in Queued
  /\ updating[i].ahead = 0
  /\ performanceMetrics' = updating[i].updatedMetrics[1]
  /\ updating' = [j \in 1..MaxUpdates |->
                    IF j = i THEN NotUpdating
                    ELSE IF j \in Queued
                         THEN [updating[j] EXCEPT !.ahead = @ - 1]
                         ELSE updating[j]]
  /\ UNCHANGED today

\* midnight (UTC) passes
DayPasses ==
  /\ today < MaxDays
  /\ today' = today + 1
  /\ UNCHANGED <<performanceMetrics, updating>>

\* the fields MetricsSpec does not follow
NotMetrics ==
  <<vars, advisory, currentAllocation, marketData, adaptiveRunInterval, riskProfile,
    pendingRecs, decisionLog, allocationBefore, tradesInCycle, intervalFresh,
    adaptations, adaptCall, recorded, status, statusThen, scoreInput, strategyScores,
    oracle, executed, activations, sockets, connections, heartbeatIntervals,
    reconnectAttempts, reconnectTimers, connectionFailed, attemptsSinceOpen, closedAll,
    toRecord, recordTradeCalls, scheduled>>

MetricsNext ==
  \/ \E i \in 1..MaxUpdates : UpdateBegins(i) /\ UNCHANGED NotMetrics
  \/ \E i \in 1..MaxUpdates, walletInfo \in BOOLEAN, dailyReturn \in Returns :
       WalletInfoReturned(i, walletInfo, dailyReturn) /\ UNCHANGED NotMetrics
  \/ \E i \in 1..MaxUpdates : MetricsAssigned(i) /\ UNCHANGED NotMetrics
  \/ DayPasses /\ UNCHANGED NotMetrics

MetricsSpec == Created /\ [][MetricsNext]_allVars

\* ---------------------------------------------------- the WebSocket service
\* WsSpec: one WebSocketService and the connection of one exchange (the maps
\* of the service are keyed by exchange, and no entry is read under another
\* key): the calls of subscribeToMarketData() and closeAll() by the owner,
\* the open and close events of the sockets and the reconnect timers, in
\* whatever order the event loop runs them.  The owner calls closeAll() once
\* and nothing after it.  Subscriptions and messages are left out.

\* sockets made by one service
MaxSockets == 6

\* private readonly MAX_RECONNECT_ATTEMPTS = 5
MAX_RECONNECT_ATTEMPTS == 5

\* attemptReconnect() with a delay that grows by a second per attempt
backoff_linear(attempts) == (attempts + 1) * 1000

\* attemptReconnect(): const backoff = Math.pow(2, attempts) * 1000
backoff(attempts) == (2 ^ attempts) * 1000

\* createConnection(): const ws = new WebSocket(endpoint), with its handlers
createConnection == Append(sockets, "CONNECTING")

\* subscribeToMarketData(): if (!this.connections.has(connectionId))
\* await this.createConnection(...)
subscribeToMarketData ==
  /\ ~closedAll
  /\ IF connections = <<>>
     THEN /\ Len(sockets) < MaxSockets
          /\ sockets' = createConnection
     ELSE UNCHANGED sockets
  /\ UNCHANGED <<connections, heartbeatIntervals, reconnectAttempts, reconnectTimers,
                 connectionFailed, attemptsSinceOpen, closedAll>>

\* ws.on('open'): the socket is entered in the map, the attempts are reset
\* and setupHeartbeat() replaces the interval of the exchange
SocketOpens(s) ==
  /\ sockets[s] = "CONNECTING"
  /\ sockets' = [sockets EXCEPT ![s] = "OPEN"]
  /\ connections' = <<s>>
  /\ reconnectAttempts' = <<0>>
  /\ heartbeatIntervals' = <<"interval">>
  /\ attemptsSinceOpen' = 0
  /\ UNCHANGED <<reconnectTimers, connectionFailed, closedAll>>

\* ws.on('close'), after a handshake that failed, a connection that was lost
\* or a close() that completed: the interval of the exchange is cleared and
\* attemptReconnect() arms a timer or emits connection_failed
SocketCloses(s) ==
  /\ sockets[s] \in {"CONNECTING", "OPEN", "CLOSING"}
  /\ sockets' = [sockets EXCEPT ![s] = "CLOSED"]
  /\ heartbeatIntervals' = <<>>
  /\ LET attempts == IF reconnectAttempts = <<>> THEN 0 ELSE reconnectAttempts[1]
     IN IF attempts < MAX_RECONNECT_ATTEMPTS
        THEN /\ reconnectAttempts' = <<attempts + 1>>
             /\ reconnectTimers' = Add(reconnectTimers, [backoff |-> backoff(attempts)])
             /\ attemptsSinceOpen' = attemptsSinceOpen + 1
             /\ UNCHANGED connectionFailed
        ELSE /\ connectionFailed' = connectionFailed + 1
             /\ UNCHANGED <<reconnectAttempts, reconnectTimers, attemptsSinceOpen>>
  /\ UNCHANGED <<connections, closedAll>>

\* the callback of a reconnect timer: this.createConnection(connectionId, exchange)
ReconnectTimerFires(t) ==
  /\ Len(sockets) < MaxSockets
  /\ reconnectTimers' = Remove(reconnectTimers, t)
  /\ sockets' = createConnection
  /\ UNCHANGED <<connections, heartbeatIntervals, reconnectAttempts, connectionFailed,
                 attemptsSinceOpen, closedAll>>

\* ws.close(): an open socket begins the closing handshake, its close event
\* comes later; a socket that is closing or closed stays as it is
close(readyState) == IF readyState = "OPEN" THEN "CLOSING" ELSE readyState

\* closeAll(): the intervals in the map are cleared, the sockets in the map
\* are closed and taken out of it
closeAll ==
  /\ ~closedAll
  /\ closedAll' = TRUE
  /\ heartbeatIntervals' = <<>>
  /\ connections' = <<>>
  /\ sockets' = IF connections = <<>> THEN sockets
                ELSE [sockets EXCEPT ![connections[1]] = close(@)]
  /\ UNCHANGED <<reconnectAttempts, reconnectTimers, connectionFailed,
                 attemptsSinceOpen>>

\* the fields WsSpec does not follow
NotWebSocket ==
  <<vars, advisory, currentAllocation, marketData, adaptiveRunInterval, riskProfile,
    pendingRecs, decisionLog, allocationBefore, tradesInCycle, intervalFresh,
    adaptations, adaptCall, recorded, status, statusThen, scoreInput, strategyScores,
    oracle, executed, activations, performanceMetrics, today, updating, toRecord,
    recordTradeCalls, scheduled>>

WsNext ==
  \/ subscribeToMarketData /\ UNCHANGED NotWebSocket
  \/ \E s \in DOMAIN sockets : SocketOpens(s) /\ UNCHANGED NotWebSocket
  \/ \E s \in DOMAIN sockets : SocketCloses(s) /\ UNCHANGED NotWebSocket
  \/ \E t \in BagToSet(reconnectTimers) :
       ReconnectTimerFires(t) /\ UNCHANGED NotWebSocket
  \/ closeAll /\ UNCHANGED NotWebSocket

WsSpec == Created /\ [][WsNext]_allVars

\* ------------------------------------------------- the recording of trades
\* TradeSpec: the loop at the end of executeAllocatedStrategies() that
\* records the results of the strategies executed, one turn at a time, for
\* one call of the method after another.  metricsService.recordTrade() is a
\* call to a collaborator: it returns or it throws.  The log holds the trade
\* of each trade_execution entry.

\* trades passed to recordTrade() before the last call of the method begins
MaxRecorded == 2

\* the results a call of executeAllocatedStrategies() can have collected: for
\* each set of allocated strategies, in the order of execution, what the DEX
\* did for each
ResultsOf(allocated) ==
  LET order == SelectSeq(ExecutionOrder, LAMBDA s : s \in allocated)
  IN {[i \in 1..Len(order) |->
         [strategy |-> order[i], dex |-> dex[order[i]],
          result |-> execute(dex[order[i]])]] :
        dex \in [allocated -> DexAnswers]}

TradeResults == UNION {ResultsOf(allocated) : allocated \in SUBSET Strategies}

\* the loop with its test of trade.success left out
isRecorded_always(trade) == TRUE

\* for (const trade of results) if (trade.success)
isRecorded(trade) == trade.result.success

\* the strategies have executed: the loop over their results begins
ResultsCollected(results) ==
  /\ toRecord = <<>>
  /\ Len(recordTradeCalls) <= MaxRecorded
  /\ executed' = results
  /\ toRecord' = results
  /\ UNCHANGED <<decisionLog, recordTradeCalls>>

\* one turn of the loop: a trade that succeeded is passed to recordTrade() and
\* then recorded in the log; if recordTrade() throws, the method is left
TradeVisited(sinkThrows) ==
  /\ toRecord # <<>>
  /\ LET trade == Head(toRecord)
     IN IF isRecorded(trade)
        THEN /\ recordTradeCalls' = Append(recordTradeCalls, trade)
             /\ IF sinkThrows
                THEN /\ toRecord' = <<>>
                     /\ UNCHANGED decisionLog
                ELSE /\ toRecord' = Tail(toRecord)
                     /\ decisionLog' =
                          recordDecision(decisionLog,
                                         [type |-> "trade_execution", trade |-> trade])
        ELSE /\ ~sinkThrows
             /\ toRecord' = Tail(toRecord)
             /\ UNCHANGED <<decisionLog, recordTradeCalls>>
  /\ UNCHANGED executed

\* the fields TradeSpec does not follow
NotTrades ==
  <<vars, advisory, currentAllocation, marketData, adaptiveRunInterval, riskProfile,
    pendingRecs, allocationBefore, tradesInCycle, intervalFresh, adaptations, adaptCall,
    recorded, status, statusThen, scoreInput, strategyScores, oracle, activations,
    performanceMetrics, today, updating, sockets, connections, heartbeatIntervals,
    reconnectAttempts, reconnectTimers, connectionFailed, attemptsSinceOpen, closedAll,
    scheduled>>

TradeNext ==
  \/ \E results \in TradeResults : ResultsCollected(results) /\ UNCHANGED NotTrades
  \/ \E sinkThrows \in BOOLEAN : TradeVisited(sinkThrows) /\ UNCHANGED NotTrades

TradeSpec == Created /\ [][TradeNext]_allVars

\* ------------------------------------------------- the delay of the retry
\* RetrySpec: the lifecycle together with the fields adaptRunInterval() reads
\* and the delay scheduleNextCycle() passes to setTimeout()

\* a calm market and a volatile one
RetryVolatilities == {Q(2, VolUnit), Q(MaxVol, VolUnit)}

\* an allocation that trades: its weights sum to more than 0.5
RetryAllocations == {[key \in {"momentum"} |-> One]}

\* a catch block that calls adaptRunInterval()
intervalAfterCatch_adapted == adaptRunInterval

\* runCycle(), catch block: nothing is assigned to adaptiveRunInterval
intervalAfterCatch == adaptiveRunInterval

\* the step called scheduleNextCycle(): one more timer is armed than fired
Armed == BagCardinality(timers') > BagCardinality(timers)

\* the rest of the sub-step c is suspended in, after its await returns
SubStepOnRetry(c) ==
  CASE c.pc = "fetchMarketData" ->
         \E volatilityIndex \in RetryVolatilities : MarketDataFetched(volatilityIndex)
    [] c.pc = "optimizeAllocation" ->
         \E allocation \in RetryAllocations : AllocationAssigned(allocation)
    [] OTHER -> UNCHANGED dataVars

\* runCycle(), the end of the try block and the statements after try/catch:
\* this.adaptRunInterval(), then scheduleNextCycle() reads adaptiveRunInterval
SuccessOnRetry ==
  /\ adaptiveRunInterval' = adaptRunInterval
  /\ intervalFresh' = (marketData # <<>>)
  /\ scheduled' = [computed |-> adaptRunInterval,
                   delay |-> IF Armed THEN <<adaptRunInterval>> ELSE scheduled.delay,
                   afterFailure |-> ~Armed /\ scheduled.afterFailure]
  /\ UNCHANGED <<advisory, currentAllocation, marketData, riskProfile, pendingRecs,
                 decisionLog, allocationBefore, tradesInCycle, adaptations, adaptCall,
                 recorded, status, statusThen, scoreInput, strategyScores, oracle,
                 executed, activations, performanceMetrics, today, updating, sockets,
                 connections, heartbeatIntervals, reconnectAttempts, reconnectTimers,
                 connectionFailed, attemptsSinceOpen, closedAll, toRecord,
                 recordTradeCalls>>

\* runCycle(), the catch block and the statements after try/catch:
\* scheduleNextCycle() reads adaptiveRunInterval
CatchOnRetry ==
  /\ adaptiveRunInterval' = intervalAfterCatch
  /\ scheduled' = IF Armed
                  THEN [scheduled EXCEPT !.delay = <<intervalAfterCatch>>,
                                         !.afterFailure = TRUE]
                  ELSE scheduled
  /\ UNCHANGED <<advisory, currentAllocation, marketData, riskProfile, pendingRecs,
                 decisionLog, allocationBefore, tradesInCycle, intervalFresh,
                 adaptations, adaptCall, recorded, status, statusThen, scoreInput,
                 strategyScores, oracle, executed, activations, performanceMetrics,
                 today, updating, sockets, connections, heartbeatIntervals,
                 reconnectAttempts, reconnectTimers, connectionFailed,
                 attemptsSinceOpen, closedAll, toRecord, recordTradeCalls>>

\* the owner starts the agent and leaves it running: only the breaker stops it
RetryNext ==
  \/ Start /\ UNCHANGED dataVars
  \/ \E c \in BagToSet(cycles) : StepReturns(c) /\ SubStepOnRetry(c)
  \/ \E c \in BagToSet(cycles) : CycleSucceeds(c) /\ SuccessOnRetry
  \/ \E c \in BagToSet(cycles) : StepThrows(c) /\ CatchOnRetry
  \/ \E t \in BagToSet(timers) : TimerRunsCycle(t) /\ UNCHANGED dataVars
  \/ \E t \in BagToSet(timers) : TimerFiresIdle(t) /\ UNCHANGED dataVars

RetrySpec == Created /\ [][RetryNext]_allVars

\* ------------------------------------------------------------------ claims
TimerCount == BagCardinality(timers)

\* a step in which a new activation of runCycle() begins
CycleBegins == InFlightCount' > InFlightCount

\* a step in which one more timer is armed
TimerArmed == BagCardinality(timers') > BagCardinality(timers)

\* a step in which an activation leaves flight (runCycle() returns or rejects)
CycleEnds == InFlightCount' < InFlightCount

LastStep == SubSteps[Len(SubSteps)]

\* C1: at most one cycle (runCycle) of the agent is in flight at any time.
C1_NoOverlappingCycles == InFlightCount <= 1

\* C2: at most one next-cycle timer is armed at any time; after start() has run
\* its first cycle exactly one timer is armed, not two.
C2_AtMostOneTimer == TimerCount <= 1

\* C3: after maxConsecutiveFailures consecutive failing cycles the agent is
\* halted, and from then on it stays halted, no timer is armed and no cycle begins.
C3_BreakerHaltsForGood ==
  [][/\ failedSinceSuccess' >= maxConsecutiveFailures
        => lifecycle' = "HaltedOnFailure"
     /\ lifecycle = "HaltedOnFailure"
        => /\ lifecycle' = "HaltedOnFailure"
           /\ ~CycleBegins
           /\ ~TimerArmed]_vars

\* C4: consecutiveFailures equals the number of failed cycles completed since
\* the most recent successful cycle (or since construction); a success resets it.
C4_CounterCountsFailuresSinceSuccess == consecutiveFailures = failedSinceSuccess

\* a cycle has failed and a later cycle has succeeded and reset the counter
C4_Witness == everFailed /\ consecutiveFailures = 0

\* C5: a timer armed before a stop() call never starts a cycle, and a cycle that
\* was in flight when stop() was called is followed by no newly armed timer.
C5_StopCancelsPending ==
  [][/\ \A t \in BagToSet(timers) :
          t.stale => ~(timers' = Remove(timers, t) /\ CycleBegins)
     /\ \A c \in BagToSet(cycles) :
          c.stopped /\ CycleEnds /\ CopiesIn(c, cycles') < CopiesIn(c, cycles)
            => ~TimerArmed]_vars

C7_StartOnlyFromIdle ==
  [][/\ CopiesIn(BeginCycle("start"), cycles') > CopiesIn(BeginCycle("start"), cycles)
        => lifecycle = "Idle"
     /\ lifecycle \in {"Stopped", "HaltedOnFailure"} => lifecycle' # "Running"]_vars

C9_ThrowEndsCycleAndCountsOnce ==
  [][failedSinceSuccess' = failedSinceSuccess + 1
       => /\ consecutiveFailures' = consecutiveFailures + 1
          /\ InFlightCount' = InFlightCount - 1
          /\ \E c \in BagToSet(cycles) :
               cycles' \in {Remove(cycles, c), MarkStopped(Remove(cycles, c))}]_vars

\* three cycles in a row have thrown
C9_Witness == consecutiveFailures = 3 /\ failedSinceSuccess = 3 /\ InFlightCount = 0

C11_FailedCycleChangesNothing ==
  [][failedSinceSuccess' = failedSinceSuccess + 1
       => currentAllocation' = allocationBefore /\ tradesInCycle' = 0]_allVars

\* C12: every failed cycle appends a failure entry to the decision log.
C12_FailureIsLogged ==
  [][failedSinceSuccess' = failedSinceSuccess + 1
       => decisionLog' = recordDecision(decisionLog, "failure")]_allVars

\* a step in which the normalizer returns
Normalizes == advisory # <<>> /\ advisory' = <<>>

\* the raw map is empty or all of its weights are zero
Degenerate(raw) == \A key \in DOMAIN raw : raw[key] = Zero

\* C13: for every raw weight map the normalizer returns a map whose weights sum
\* to 1, and the map is empty only if there is no known strategy.
C13_NormalizedSumsToOne ==
  [][Normalizes
       => /\ SumValues(currentAllocation') = One
          /\ DOMAIN currentAllocation' = {} <=> Strategies = {}]_allVars

\* C14: an empty or all-zero advisory allocation gives the equal split over
\* all known strategies.
C14_DegenerateGivesEqualSplitOfKnown ==
  [][Normalizes /\ Degenerate(advisory[1])
       => currentAllocation' =
            [key \in Strategies |-> Q(1, Cardinality(Strategies))]]_allVars

\* C15: every weight of currentAllocation is non-negative.
C15_WeightsNonNegative ==
  \A key \in DOMAIN currentAllocation : ~QLess(currentAllocation[key], Zero)

\* C16: the next-cycle delay is always within [24000, 144000] ms.
C16_DelayWithinRange ==
  24000 <= adaptiveRunInterval /\ adaptiveRunInterval <= 144000

\* the fastest cadence: high volatility and an allocation that sums to 1
C16_Witness ==
  /\ intervalFresh
  /\ adaptiveRunInterval = 24000
  /\ marketData = <<Q(1, 2)>>
  /\ SumValues(currentAllocation) = One

\* 1.0 when the allocation is empty, 0.8 when its weights sum to more than 0.5,
\* 1.2 otherwise
ActivityFactor(allocation) ==
  CASE DOMAIN allocation = {} -> Q(10, 10)
    [] DOMAIN allocation # {} /\ QLess(Q(5, 10), SumValues(allocation)) -> Q(8, 10)
    [] OTHER -> Q(12, 10)

\* r is x rounded to the nearest integer (halves upwards)
IsRounded(r, x) == (2 * r - 1) * x.d <= 2 * x.n /\ 2 * x.n < (2 * r + 1) * x.d

\* C17: a volatilityIndex of 0 gives the delay of volatilityFactor 2.0.
C17_ZeroVolatilityIsSlowest ==
  intervalFresh /\ marketData = <<Zero>>
    => IsRounded(adaptiveRunInterval,
                 QMul(Q(2 * 60000, 1), ActivityFactor(currentAllocation)))

\* clamp(1 / (4 * v), 0.5, 2.0) for v > 0
ClampedInverse(v) ==
  CASE QLess(Q(2, 1), QDiv(One, QMul(Q(4, 1), v))) -> Q(2, 1)
    [] QLess(QDiv(One, QMul(Q(4, 1), v)), Q(1, 2)) -> Q(1, 2)
    [] OTHER -> QDiv(One, QMul(Q(4, 1), v))

\* C18: for volatilityIndex > 0 the delay set by a successful cycle is
\* round(60000 * clamp(1/(4*volatilityIndex), 0.5, 2.0) * activityFactor).
C18_DelayFormula ==
  intervalFresh /\ QLess(Zero, marketData[1])
    => IsRounded(adaptiveRunInterval,
                 QMul(QMul(Q(60000, 1), ClampedInverse(marketData[1])),
                      ActivityFactor(currentAllocation)))

\* volatilityIndex 0.35 and an allocation that sums to 1: 60000 * (1 / 1.4) * 0.8
\* = 34285.71..., rounded to 34286
C18_Witness ==
  /\ intervalFresh
  /\ marketData = <<Q(7, 20)>>
  /\ SumValues(currentAllocation) = One
  /\ adaptiveRunInterval = 34286

\* a <= x <= b
QWithin(x, a, b) == ~QLess(x, a) /\ ~QLess(b, x)

\* positionSizeFactor is within [0.5, 1.5] and maxExposurePerAsset within [0.05, 0.25]
WithinHardBounds(profile) ==
  /\ QWithin(profile.positionSizeFactor, Q(5, 10), Q(15, 10))
  /\ QWithin(profile.maxExposurePerAsset, Q(5, 100), Q(25, 100))

\* C19: a risk adaptation leaves positionSizeFactor within [0.5, 1.5] and
\* maxExposurePerAsset within [0.05, 0.25], whatever profile the agent was
\* constructed with.
C19_RiskWithinHardBounds ==
  [][riskProfile' # riskProfile => WithinHardBounds(riskProfile')]_allVars

\* a step in which the loop of adaptRiskSettings() visits a recommendation
Visits == pendingRecs # <<>> /\ pendingRecs' = Tail(pendingRecs) /\ adaptations' = adaptations + 1

ReduceWords == {"reduce risk", "lower exposure"}
IncreaseWords == {"increase risk", "higher exposure"}

\* the recommendation asks for less risk, and for nothing else
ReduceIntent(rec) == rec.action \cap ReduceWords # {} /\ rec.action \cap IncreaseWords = {}

\* the recommendation asks for more risk, and for nothing else
IncreaseIntent(rec) == rec.action \cap IncreaseWords # {} /\ rec.action \cap ReduceWords = {}

OtherRiskFields == DOMAIN defaultRiskProfile \ {"positionSizeFactor", "maxExposurePerAsset"}

\* C20: each matching high-priority recommendation applies one step: reduce
\* sets the two fields to max(0.5, 0.9*old) and max(0.05, 0.9*old), increase to
\* min(1.5, 1.1*old) and min(0.25, 1.1*old); no other field changes, and
\* nothing but such a step changes the risk profile.
C20_OneStepPerRecommendation ==
  [][/\ riskProfile' # riskProfile => Visits
     /\ \A f \in OtherRiskFields : riskProfile'[f] = riskProfile[f]
     /\ Visits =>
          LET rec == Head(pendingRecs)
              psf == riskProfile.positionSizeFactor
              mea == riskProfile.maxExposurePerAsset
          IN /\ rec.priority = "high"
             /\ rec.action \cap {"risk", "exposure"} # {}
             /\ ReduceIntent(rec) =>
                  /\ riskProfile'.positionSizeFactor = QMax(Q(1, 2), Q(9 * psf.n, 10 * psf.d))
                  /\ riskProfile'.maxExposurePerAsset = QMax(Q(1, 20), Q(9 * mea.n, 10 * mea.d))
             /\ IncreaseIntent(rec) =>
                  /\ riskProfile'.positionSizeFactor = QMin(Q(3, 2), Q(11 * psf.n, 10 * psf.d))
                  /\ riskProfile'.maxExposurePerAsset = QMin(Q(1, 4), Q(11 * mea.n, 10 * mea.d))
    ]_allVars

\* from positionSizeFactor 1 and maxExposurePerAsset 0.05, a reduce step has
\* given 0.9 and the lower limit 0.05, and an increase step after it 0.99 and 0.055
C20_Witness ==
  /\ adaptations = 2
  /\ pendingRecs = <<>>
  /\ riskProfile.positionSizeFactor = Q(99, 100)
  /\ riskProfile.maxExposurePerAsset = Q(55, 1000)

\* no recommendation is both of high priority and about risk or exposure
NoneApplies(recommendations) ==
  \A i \in 1..Len(recommendations) :
    ~ /\ recommendations[i].priority = "high"
      /\ {"risk", "exposure"} \cap recommendations[i].action # {}

\* what adaptRiskSettings() holds after its filter, for the lists in which
\* none applies
KeptOfNone ==
  {[given |-> Len(recs), riskRecommendations |-> riskRecommendations(recs)] :
     recs \in {r \in RecommendationLists : NoneApplies(r)}}

\* C21: a call of adaptRiskSettings() with no recommendation that is both of
\* high priority and about risk or exposure keeps none, and while a call
\* that keeps none is in progress no step changes the risk profile and none
\* records a decision
C21_NoMatchIsNoOp ==
  /\ [][adaptCall = <<>> /\ adaptCall' # <<>> /\ adaptCall'[1] \in KeptOfNone
          => adaptCall'[1].riskRecommendations = <<>>]_allVars
  /\ [][adaptCall # <<>> /\ adaptCall[1].riskRecommendations = <<>>
          => riskProfile' = riskProfile /\ decisionLog' = decisionLog]_allVars

\* a call with two recommendations, of which none applies, has gone through
\* its filter
C21_Witness ==
  /\ adaptCall # <<>>
  /\ adaptCall[1].given = 2
  /\ adaptCall[1].riskRecommendations = <<>>
  /\ pendingRecs = <<>>

\* C22: the decision log never holds more than 100 entries
C22_LogAtMostHundred == Len(decisionLog) <= 100

\* 150 decisions were recorded and the log is full
C22_Witness == recorded = 150 /\ Len(decisionLog) = 100

Min(a, b) == IF a < b THEN a ELSE b

\* the last k of the decisions recorded so far, the most recent one last
LastRecorded(k) == [i \in 1..k |-> recorded - k + i]

\* C23: after n decisions the log holds the last min(n, 100) of them in the
\* order they were recorded, and the status query returns the last
\* min(5, size) entries of the log, the most recent one last
C23_LogIsFifo ==
  /\ decisionLog = LastRecorded(Min(recorded, 100))
  /\ recentDecisions(decisionLog) = LastRecorded(Min(5, Len(decisionLog)))

\* after 150 decisions the log holds the 51st to the 150th
C23_Witness ==
  /\ recorded = 150
  /\ decisionLog = [i \in 1..100 |-> 50 + i]
  /\ recentDecisions(decisionLog) = <<146, 147, 148, 149, 150>>

\* C24: the risk profile read from a status that was returned is the profile
\* of the moment of the query, whatever later cycles do to the agent
C24_StatusIsSnapshot ==
  status # <<>> => Content(status[1].riskProfile) = statusThen[1]

\* C25: every StrategyScore that an evaluate() resolves to has its score in
\* [0, 100] and its confidence in [0, 1]
C25_ScoresInRange ==
  \A s \in Strategies :
    strategyScores[s] # <<>> =>
      /\ QWithin(strategyScores[s][1].score, Zero, Q(100, 1))
      /\ QWithin(strategyScores[s][1].confidence, Zero, One)

\* the response is degenerate: the call failed, the text cannot be parsed, or
\* (for an allocation) the map is empty or all of its weights are zero
DegenerateAnalysis(response) == response.json = <<>>
DegenerateAllocation(response) ==
  response.json = <<>> \/ Degenerate(response.json[1])

\* the analysis is complete: each of its risks has a severity
CompleteAnalysis(response) ==
  /\ response.json # <<>>
  /\ \A i \in DOMAIN response.json[1].risks : response.json[1].risks[i].severity # <<>>

\* some response of the cycle is degenerate and its analysis is degenerate or
\* complete
DegenerateCycle(responses) ==
  /\ DegenerateAnalysis(responses.analysis) \/ DegenerateAllocation(responses.allocation)
  /\ DegenerateAnalysis(responses.analysis) \/ CompleteAnalysis(responses.analysis)

\* C26: a cycle to which the advisory gives a degenerate response does not
\* increment consecutiveFailures, and it ends as a success, with
\* consecutiveFailures reset
C26_DegenerateResponseIsNoFailure ==
  [][oracle # <<>> /\ DegenerateCycle(oracle[1]) /\ cycles # EmptyBag
       => /\ consecutiveFailures' <= consecutiveFailures
          /\ cycles' = EmptyBag =>
               consecutiveFailures' = 0 /\ failedSinceSuccess' = 0]_allVars

\* after a failed cycle, a cycle whose analysis call failed and whose
\* allocation parsed to {} has ended as a success
C26_Witness ==
  /\ oracle # <<>>
  /\ oracle[1].analysis.kind = "rejects"
  /\ oracle[1].allocation.json = <<EmptyAllocation>>
  /\ cycles = EmptyBag
  /\ everFailed
  /\ consecutiveFailures = 0

\* C28: after the execute() of a strategy met a rejection of the DEX, no
\* later strategy is executed in that cycle
C28_ExecuteErrorEndsExecution ==
  \A i \in DOMAIN executed : executed[i].dex = "rejects" => i = Len(executed)

\* a step in which a cycle ends in the catch block
CycleFails == failedSinceSuccess' = failedSinceSuccess + 1

\* C27: the flag isRunning is cleared only by stop() and by the failure
\* threshold, and while it is set a cycle is in flight or a timer is armed; a
\* cycle that fails below the threshold while the agent runs arms a timer, and
\* after such a cycle, unless stop() is called or the threshold is reached, a
\* cycle runs
C27_OnlyBreakerHalts ==
  /\ [](isRunning => TimerCount + InFlightCount > 0)
  /\ [][isRunning /\ ~isRunning'
          => \/ lifecycle' = "Stopped"
             \/ lifecycle' = "HaltedOnFailure"
                  /\ consecutiveFailures' >= maxConsecutiveFailures]_allVars
  /\ [][CycleFails /\ consecutiveFailures' < maxConsecutiveFailures /\ isRunning
          => TimerArmed]_allVars
  /\ (isRunning /\ failedSinceSuccess > 0 /\ InFlightCount = 0)
       ~> (InFlightCount > 0 \/ ~isRunning)

\* after three failures in a row of an agent that was never stopped, a timer
\* has begun the next cycle
C27_Witness ==
  /\ lifecycle = "Running"
  /\ consecutiveFailures = 3
  /\ failedSinceSuccess = 3
  /\ \E c \in BagToSet(cycles) : c.origin = "timer" /\ ~c.stopped
  /\ InFlightCount = 1

\* the order of the sub-steps that the claim gives
ClaimedOrder ==
  <<"fetchMarketData", "analyzeMarket", "evaluateStrategies", "optimizeAllocation",
    "executeAllocatedStrategies", "updatePerformanceMetrics",
    "analyzePerformanceAndAdapt">>

IsPrefix(s, t) == Len(s) <= Len(t) /\ s = SubSeq(t, 1, Len(s))

\* C29: every activation of runCycle() goes through its sub-steps in the
\* order fetch, analyze, score, allocate, execute, update metrics, performance
\* analysis with risk adaptation, and a step that changes the risk profile is
\* the return of the last sub-step of an activation that has finished its
\* strategy executions and its update of the metrics
C29_RiskAdaptedLast ==
  /\ [](\A i \in DOMAIN activations : IsPrefix(activations[i].finished, ClaimedOrder))
  /\ [][riskProfile' # riskProfile
          => \E i \in DOMAIN activations :
               /\ activations[i].finished = SubSeq(ClaimedOrder, 1, 6)
               /\ activations'[i].finished = ClaimedOrder]_allVars

\* the second activation has adapted the risk profile while the third is in
\* flight
C29_Witness ==
  /\ Len(activations) = 3
  /\ activations[2].finished = ClaimedOrder
  /\ activations[3].pc \in StepNames
  /\ decisionLog # <<>>
  /\ decisionLog[Len(decisionLog)] = [type |-> "risk_adaptation", cycle |-> 2]
  /\ riskProfile # defaultRiskProfile

\* the place of an entry type in the order of a cycle
Rank(type) ==
  CASE type = "market_analysis" -> 1
    [] type = "portfolio_allocation" -> 2
    [] type = "trade_execution" -> 3
    [] type = "performance_analysis" -> 4
    [] type = "risk_adaptation" -> 5

\* C30: in the decision log every entry of a cycle comes before every entry
\* of the cycles that began after it, and the entries of one cycle are in the
\* order market_analysis, portfolio_allocation, trade_execution,
\* performance_analysis, risk_adaptation
C30_LogInCycleOrder ==
  \A i, j \in DOMAIN decisionLog :
    i < j => /\ decisionLog[i].cycle <= decisionLog[j].cycle
             /\ decisionLog[i].cycle = decisionLog[j].cycle
                  => Rank(decisionLog[i].type) <= Rank(decisionLog[j].type)

\* C31: every sub-step of a successful cycle appends at least one entry to
\* the decision log.
C31_EverySubStepLogs ==
  [][\A c \in BagToSet(cycles) :
       StepReturns(c) \/ CycleSucceeds(c) => decisionLog' # decisionLog]_allVars

\* the strategies whose weight in currentAllocation is greater than 0
PositiveWeight ==
  {s \in Strategies :
     s \in DOMAIN currentAllocation /\ QLess(Zero, currentAllocation[s])}

\* the strategies executed so far in the cycle
ExecutedStrategies == {executed[i].strategy : i \in DOMAIN executed}

ReturnDays == DOMAIN performanceMetrics.dailyReturns

\* C33: across the updates of the metrics no key of dailyReturns is removed,
\* and an update adds the key of its day if that day has none and no key
\* otherwise
C33_DailyReturnsOnlyGrow ==
  [][/\ ReturnDays \subseteq ReturnDays'
     /\ Cardinality(ReturnDays' \ ReturnDays) <= 1]_allVars

\* a step in which a socket opens, closes
Opens == \E s \in DOMAIN sockets : sockets[s] # "OPEN" /\ sockets'[s] = "OPEN"
Closes == \E s \in DOMAIN sockets : sockets[s] # "CLOSED" /\ sockets'[s] = "CLOSED"

\* a step in which a reconnect timer is armed with the given delay
Arms(delay) == reconnectTimers' = Add(reconnectTimers, [backoff |-> delay])

\* C34: a close of a socket arms a reconnect timer with a delay of
\* 2^k * 1000 ms, k the number of reconnects armed since a socket last
\* opened, as long as k is below 5; an open resets the attempt counter to 0;
\* with k at 5 a close emits connection_failed and arms no timer, and no
\* other step arms a timer or emits the event.
C34_ReconnectBacksOff ==
  /\ [][Closes /\ attemptsSinceOpen < 5
          => Arms((2 ^ attemptsSinceOpen) * 1000)
               /\ connectionFailed' = connectionFailed]_allVars
  /\ [][Closes /\ attemptsSinceOpen >= 5
          => connectionFailed' = connectionFailed + 1
               /\ reconnectTimers' = reconnectTimers]_allVars
  /\ [][~Closes
          => connectionFailed' = connectionFailed
               /\ reconnectTimers' \sqsubseteq reconnectTimers]_allVars
  /\ [][Opens => reconnectAttempts' = <<0>>]_allVars
  /\ [](attemptsSinceOpen <= 5)

\* a socket opened and was lost, five reconnects in a row failed with delays
\* up to 16 s, and the close of the last has emitted connection_failed
C34_Witness ==
  /\ Len(sockets) = 6
  /\ \A s \in DOMAIN sockets : sockets[s] = "CLOSED"
  /\ connections = <<1>>
  /\ attemptsSinceOpen = 5
  /\ connectionFailed = 1
  /\ reconnectTimers = EmptyBag
  /\ ~closedAll

\* the sockets that are open or being opened
Live == {s \in DOMAIN sockets : sockets[s] \in {"CONNECTING", "OPEN"}}

\* C39: no socket is created for the exchange while it has a socket that is
\* open or being opened
C39_OneLiveSocket == [][Len(sockets') > Len(sockets) => Live = {}]_allVars

\* C40: after closeAll() the exchange has no connection and no heartbeat
\* interval, and no reconnect timer is armed
C40_StaysClosed ==
  /\ [](closedAll => connections = <<>> /\ heartbeatIntervals = <<>>)
  /\ [][closedAll => reconnectTimers' \sqsubseteq reconnectTimers]_allVars

\* C35: consecutiveFailures never exceeds maxConsecutiveFailures.
C35_CounterWithinMax == consecutiveFailures <= maxConsecutiveFailures

\* a <= b
QLeq(a, b) == ~QLess(b, a)

\* C36: a reduce recommendation never increases positionSizeFactor or
\* maxExposurePerAsset, and an increase recommendation never decreases either
\* of them.
C36_ReduceLowersIncreaseRaises ==
  [][Visits =>
       LET rec == Head(pendingRecs)
       IN /\ ReduceIntent(rec) =>
               /\ QLeq(riskProfile'.positionSizeFactor, riskProfile.positionSizeFactor)
               /\ QLeq(riskProfile'.maxExposurePerAsset, riskProfile.maxExposurePerAsset)
          /\ IncreaseIntent(rec) =>
               /\ QLeq(riskProfile.positionSizeFactor, riskProfile'.positionSizeFactor)
               /\ QLeq(riskProfile.maxExposurePerAsset, riskProfile'.maxExposurePerAsset)
    ]_allVars

\* C37: a trade that failed is neither passed to recordTrade() nor written
\* to the decision log, and a trade_execution entry is written only in the
\* turn of the loop in which its trade is passed to recordTrade(), once.
C37_OnlySuccessfulTradesRecorded ==
  /\ [](\A i \in DOMAIN recordTradeCalls : recordTradeCalls[i].result.success)
  /\ [](\A i \in DOMAIN decisionLog :
          decisionLog[i].type = "trade_execution"
            => decisionLog[i].trade.result.success)
  /\ [][toRecord # <<>> /\ ~Head(toRecord).result.success
          => decisionLog' = decisionLog /\ recordTradeCalls' = recordTradeCalls]_allVars
  /\ [][decisionLog' # decisionLog
          => /\ toRecord # <<>>
             /\ recordTradeCalls' = Append(recordTradeCalls, Head(toRecord))
             /\ decisionLog' =
                  Append(decisionLog,
                         [type |-> "trade_execution", trade |-> Head(toRecord)])]_allVars

\* of three strategies executed, the first and the third traded and are
\* recorded, the second met a rejection of the DEX and is not
C37_Witness ==
  /\ Len(executed) = 3
  /\ toRecord = <<>>
  /\ executed[2].dex = "rejects"
  /\ recordTradeCalls = <<executed[1], executed[3]>>
  /\ Len(decisionLog) = 2
  /\ decisionLog[1].trade = executed[1]
  /\ decisionLog[2].trade = executed[3]

\* C38: a cycle that ends in the catch block leaves adaptiveRunInterval as it
\* was; adaptiveRunInterval changes only in the step that ends a cycle in
\* success; and the timer armed after a failure has the delay the last
\* successful cycle computed, or 60000 when no cycle has succeeded, which is
\* what adaptiveRunInterval holds at any time.
C38_FailureKeepsDelay ==
  /\ [][failedSinceSuccess' = failedSinceSuccess + 1
          => adaptiveRunInterval' = adaptiveRunInterval]_allVars
  /\ [][adaptiveRunInterval' # adaptiveRunInterval
          => /\ failedSinceSuccess' = 0
             /\ BagCardinality(cycles') < BagCardinality(cycles)
             /\ scheduled'.computed = adaptiveRunInterval']_allVars
  /\ [][failedSinceSuccess' = failedSinceSuccess + 1 /\ Armed
          => scheduled'.delay = <<scheduled.computed>>]_allVars
  /\ [](adaptiveRunInterval = scheduled.computed)

\* a retry is scheduled after a failure with the delay of an earlier success,
\* although the failed cycle had fetched other market data
C38_Witness ==
  /\ scheduled.afterFailure
  /\ scheduled.delay = <<adaptiveRunInterval>>
  /\ adaptiveRunInterval # initialRunInterval
  /\ ~intervalFresh
  /\ failedSinceSuccess > 0

====
